---- MODULE Spec2Model ----
(***************************************************************************)
(* Procure-to-pay backend (Django REST + Celery): the life of one          *)
(* PurchaseRequest row under concurrent API calls and background tasks.    *)
(*                                                                         *)
(* The relational store is PostgreSQL in READ COMMITTED mode (settings.py  *)
(* DATABASES); every ORM statement outside transaction.atomic() commits on *)
(* its own.  A handler is therefore split at the points where another      *)
(* process can run between one of its reads and one of its writes.         *)
(***************************************************************************)
EXTENDS Integers, Sequences, FiniteSets, TLC

\* ------------------------------------------------------------------ bounds
\* API calls issued in one behaviour (each call may enqueue one task).
MaxCalls == 3
\* Other PurchaseRequest rows present when the list endpoint is exercised.
MaxOthers == 2
\* RequestItems a request may hold before one more is saved directly.
MaxItems == 1
\* Tasks handed to the queue when the three tasks are run with retries.
MaxTasks == 2

\* ------------------------------------------------------------ users, roles
NoUser == "none"
Users == {"staff1", "staff2", "appr1", "appr1b", "appr2", "fin", "su", "noprof"}

is_superuser(u) == u = "su"

\* request.user.profile raises UserProfile.DoesNotExist for "noprof".
HasProfile(u) == u # "noprof"

role(u) ==
    CASE u \in {"staff1", "staff2"} -> "staff"
      [] u \in {"appr1", "appr1b"} -> "approver_level_1"
      [] u = "appr2" -> "approver_level_2"
      [] u = "fin" -> "finance"
      [] u = "su" -> "admin"
      [] OTHER -> "none"

\* ------------------------------------------------------ permission policies
\* request.user as a permission class sees it: profile is the role of the
\* profile row, or DoesNotExist when the lookup raises.
DoesNotExist == "DoesNotExist"

RequestUser(auth, su, prof) ==
    [is_authenticated |-> auth, is_superuser |-> su, profile |-> prof]

AnonymousUser == RequestUser(FALSE, FALSE, DoesNotExist)

\* request.user of a named, authenticated caller
AsRequestUser(u) ==
    RequestUser(TRUE, is_superuser(u),
                IF HasProfile(u) THEN role(u) ELSE DoesNotExist)

RolePolicies ==
    {"IsStaff", "IsApproverLevel1", "IsApproverLevel2", "IsFinance",
     "IsApprover", "IsStaffOrFinance", "IsAdmin"}

Policies == RolePolicies \cup {"IsOwnerOrReadOnly"}

\* the policies that return True for a superuser before the profile lookup
SuperuserPolicies ==
    {"IsStaff", "IsFinance", "IsApprover", "IsStaffOrFinance", "IsAdmin"}

\* the profile roles a policy accepts
PolicyRoles(policy) ==
    CASE policy = "IsStaff" -> {"staff"}
      [] policy = "IsApproverLevel1" -> {"approver_level_1"}
      [] policy = "IsApproverLevel2" -> {"approver_level_2"}
      [] policy = "IsFinance" -> {"finance"}
      [] policy = "IsApprover" -> {"approver_level_1", "approver_level_2"}
      [] policy = "IsStaffOrFinance" -> {"staff", "finance"}
      [] policy = "IsAdmin" -> {"admin"}
      [] OTHER -> {}

\* policies that look the profile up before they look at is_superuser
has_permission_profile_first(policy, user) ==
    IF policy = "IsOwnerOrReadOnly" THEN TRUE
    ELSE IF ~user.is_authenticated THEN FALSE
    ELSE IF user.profile = DoesNotExist THEN FALSE
    ELSE IF policy \in SuperuserPolicies /\ user.is_superuser THEN TRUE
    ELSE user.profile \in PolicyRoles(policy)

\* <policy>.has_permission(request, view). IsOwnerOrReadOnly defines none and
\* inherits BasePermission.has_permission, which returns True.
has_permission(policy, user) ==
    IF policy = "IsOwnerOrReadOnly" THEN TRUE
    ELSE IF ~user.is_authenticated THEN FALSE
    ELSE IF policy \in SuperuserPolicies /\ user.is_superuser THEN TRUE
    ELSE IF user.profile = DoesNotExist THEN FALSE
    ELSE user.profile \in PolicyRoles(policy)

SAFE_METHODS == {"GET", "HEAD", "OPTIONS"}

\* <policy>.has_object_permission(request, view, obj) for an obj that has a
\* created_by attribute; is_creator is obj.created_by == request.user. The
\* role policies inherit BasePermission.has_object_permission (True).
has_object_permission(policy, method, is_creator) ==
    IF policy # "IsOwnerOrReadOnly" THEN TRUE
    ELSE IF method \in SAFE_METHODS THEN TRUE
    ELSE is_creator

\* permissions.IsApprover.has_permission (the caller is authenticated)
IsApprover(u) == has_permission("IsApprover", AsRequestUser(u))

\* permissions.IsStaff.has_permission (the caller is authenticated)
IsStaff(u) == has_permission("IsStaff", AsRequestUser(u))

\* ------------------------------------------- request types, approval levels
\* t0 has no required level, t1 one, t2 two (the fixture of conftest.py).
\* t3 is a second type with two required levels, which a request takes only
\* through an update of its request_type_id. t4, t5 and t6 are types an
\* admin configures through ApprovalLevelViewSet with the other values of
\* approver_role: a staff level, a finance level, one role on two levels.
Types == {"t0", "t1", "t2"}

ApprovalLevel(id, t, n, r, req) ==
    [id |-> id, request_type |-> t, level_number |-> n, approver_role |-> r,
     is_required |-> req]

ApprovalLevels ==
    { ApprovalLevel("t0o", "t0", 1, "approver_level_1", FALSE),
      ApprovalLevel("t1a", "t1", 1, "approver_level_1", TRUE),
      ApprovalLevel("t2a", "t2", 1, "approver_level_1", TRUE),
      ApprovalLevel("t2b", "t2", 2, "approver_level_2", TRUE),
      ApprovalLevel("t3a", "t3", 1, "approver_level_1", TRUE),
      ApprovalLevel("t3b", "t3", 2, "approver_level_2", TRUE),
      ApprovalLevel("t4a", "t4", 1, "staff", TRUE),
      ApprovalLevel("t5a", "t5", 1, "finance", TRUE),
      ApprovalLevel("t6a", "t6", 1, "approver_level_1", TRUE),
      ApprovalLevel("t6b", "t6", 2, "approver_level_1", TRUE) }

NoLevel == "none"

\* ApprovalLevel.objects.filter(request_type=..., is_required=True)
approval_levels(t) ==
    {l \in ApprovalLevels : l.request_type = t /\ l.is_required}

\* approval_levels.last(): the highest level_number of the ordered queryset
LastLevel(t) ==
    (CHOOSE l \in approval_levels(t) :
        \A m \in approval_levels(t) : m.level_number <= l.level_number).id

\* the first level, in level_number order, whose approver_role is the role
FirstLevelFor(t, r) ==
    LET S == {l \in approval_levels(t) : l.approver_role = r}
    IN  IF S = {} THEN NoLevel
        ELSE (CHOOSE l \in S : \A m \in S : l.level_number <= m.level_number).id

\* a superuser matched to the lowest required level
user_approval_level_first(u, t) ==
    IF is_superuser(u)
    THEN (CHOOSE l \in approval_levels(t) :
            \A m \in approval_levels(t) : l.level_number <= m.level_number).id
    ELSE FirstLevelFor(t, role(u))

\* user_approval_level as _handle_approval_action computes it
user_approval_level(u, t) ==
    IF is_superuser(u) THEN LastLevel(t) ELSE FirstLevelFor(t, role(u))

\* ---------------------------------------------------------------- the row
\* File fields and JSON fields hold 0 for null, a positive number otherwise.
Row(st, ab, ti, ty, cb, pf, po, rc, ex, rv) ==
    [exists |-> TRUE, status |-> st, approved_by |-> ab, title |-> ti,
     request_type |-> ty, created_by |-> cb, proforma |-> pf,
     purchase_order |-> po, receipt |-> rc, proforma_extracted_data |-> ex,
     receipt_validated |-> rv]

NoRow ==
    [exists |-> FALSE, status |-> "none", approved_by |-> NoUser, title |-> 0,
     request_type |-> "none", created_by |-> NoUser, proforma |-> 0,
     purchase_order |-> 0, receipt |-> 0, proforma_extracted_data |-> 0,
     receipt_validated |-> FALSE]

\* an edit lock that forgets the approved status
can_be_edited_unless_rejected(r) == r.status # "rejected"

\* PurchaseRequest.can_be_edited
can_be_edited(r) == r.status = "pending"

\* PurchaseRequest.is_final_status
is_final_status(r) == r.status \in {"approved", "rejected"}

\* ------------------------------------------------------------- call slots
Calls == 1..MaxCalls

IdleCall ==
    [op |-> "idle", user |-> NoUser, pc |-> "idle", snap |-> NoRow,
     level |-> NoLevel, title |-> 0, rtype |-> "none",
     items |-> [given |-> FALSE, list |-> <<>>],
     proforma |-> 0, resp |-> 0, seen |-> "none", reseen |-> "none",
     dup |-> FALSE, status_filter |-> "", target |-> 0,
     created |-> FALSE, moved |-> FALSE, wrote |-> FALSE, result |-> {},
     supplied |-> [created_by |-> NoUser, status |-> "none"]]

IdleTask ==
    [kind |-> "none", pc |-> "none", snap |-> NoRow, result |-> "none",
     extracted |-> <<>>, retries |-> 0]

VARIABLES
    pr,         \* the committed PurchaseRequest row
    items,      \* the committed RequestItems of the request, in id order
    approvals,  \* the committed Approval rows of the request, oldest first
    lock,       \* the call holding the row lock (select_for_update), or 0
    calls,      \* the API calls, by slot
    tasks,      \* the Celery task each call enqueued, by the call's slot
    others,     \* other PurchaseRequest rows (list endpoint only)
    decision,   \* the permission check made for a request, and its answers
    accounts,   \* the User rows with their UserProfile rows, in id order
    replies,    \* the answers of the account endpoints, oldest first
    outbox,     \* the credentials emails handed to send_mail, oldest first
    media,      \* the media root as a run of cleanup_old_media finds it
    cleanup,    \* the last run of cleanup_old_media: options, output
    upload      \* a file given to a serializer field, and the field's answer

\* what the purchase-request endpoints and the tasks never touch
outside == <<decision, accounts, replies, outbox, media, cleanup, upload>>

\* the purchase requests, their calls and their tasks
requests == <<pr, items, approvals, lock, calls, tasks, others>>

vars == <<pr, items, approvals, lock, calls, tasks, others, outside>>

NoDecision ==
    [policy |-> "none", user |-> AnonymousUser, method |-> "none",
     is_creator |-> FALSE, has_permission |-> FALSE,
     has_object_permission |-> FALSE]

\* stdout of a run of cleanup_old_media that wrote nothing
NoOutput ==
    [warning |-> FALSE, found |-> 0, checking |-> {}, lines |-> {},
     summary |-> [kind |-> "none", count |-> 0,
                  size |-> [hundredths |-> 0, unit |-> "none"]]]

NoRun ==
    [ran |-> FALSE, dry_run |-> FALSE, orphaned_only |-> FALSE, days |-> 0,
     before |-> {}, stdout |-> NoOutput]

\* an existing, empty media root
EmptyMedia == [exists |-> TRUE, dirs |-> {}, files |-> {}]

\* no file given to a field
NoUpload ==
    [field |-> "none", file |-> [name |-> <<>>, size |-> 0], answer |-> "none"]

OutsideIdle ==
    /\ decision = NoDecision
    /\ accounts = <<>>
    /\ replies = <<>>
    /\ outbox = <<>>
    /\ media = EmptyMedia
    /\ cleanup = NoRun
    /\ upload = NoUpload

\* ------------------------------------------------------------ shared parts
\* The slots are taken in order, so that a behaviour is not counted once per
\* permutation of its calls.
NextSlot(c) ==
    /\ calls[c].op = "idle"
    /\ \A d \in Calls : d < c => calls[d].op # "idle"

\* The call has answered: its copy of the row is dropped with the request.
Done(call, code) ==
    [call EXCEPT !.pc = "done", !.resp = code, !.snap = NoRow]

ActionOf(op) == IF op = "approve" THEN "approved" ELSE "rejected"

\* PurchaseRequestViewSet.get_queryset, as a predicate on one row (without
\* the status filter): is the row in the caller's queryset?
InQueryset(u, r) ==
    IF is_superuser(u) THEN TRUE
    ELSE IF ~HasProfile(u) THEN FALSE
    ELSE IF role(u) = "staff" THEN r.created_by = u
    ELSE TRUE

Approval(u, lv, action) ==
    [approver |-> u, approval_level |-> lv, action |-> action]

\* Approval.objects.filter(purchase_request=, approval_level=, approver=).first()
existing_approval(apprs, u, lv) ==
    \E i \in 1..Len(apprs) :
        apprs[i].approver = u /\ apprs[i].approval_level = lv

\* a model without the unique_together constraint
unique_together_missing(apprs, new) == FALSE

\* Approval.Meta.unique_together: would inserting `new` raise IntegrityError?
unique_together_violated(apprs, new) ==
    \E i \in 1..Len(apprs) :
        /\ apprs[i].approver = new.approver
        /\ apprs[i].approval_level = new.approval_level

\* the handler without the second status check
status_recheck_skipped(row) == FALSE

\* a second status check that only notices a rejection
status_has_changed_to_rejected(row) == row.status = "rejected"

\* the status check repeated on the row read under the lock
status_has_changed(row) == row.status # "pending"

\* counting the approved Approvals instead of their distinct levels
approved_levels_not_distinct(apprs) ==
    Cardinality({j \in 1..Len(apprs) : apprs[j].action = "approved"})

\* Approval.objects.filter(purchase_request=, action='approved')
\*     .values_list('approval_level', flat=True).distinct().count()
approved_levels(apprs) ==
    Cardinality({apprs[i].approval_level : i \in
                    {j \in 1..Len(apprs) : apprs[j].action = "approved"}})

\* approval_levels.count()
required_levels(t) == Cardinality(approval_levels(t))

\* the receiver not connected to post_save
rejection_signal_not_connected(row, new) == row

\* models.update_purchase_request_status_on_rejection (post_save of a created
\* Approval): the UPDATE it issues on the request's row.
update_purchase_request_status_on_rejection(row, new) ==
    IF new.action = "rejected" THEN [row EXCEPT !.status = "rejected"] ELSE row

\* -------------------------------------------------- approve / reject calls
\* _handle_approval_action up to the transaction: permission, get_object and
\* the checks made on committed data before the row is locked.
ApprovalBegin(c, u, op) ==
    /\ NextSlot(c)
    /\ pr.exists
    /\ LET base == [IdleCall EXCEPT !.op = op, !.user = u]
           got == [base EXCEPT !.seen = pr.status, !.snap = pr]
           t == pr.request_type
           lv == user_approval_level(u, t)
       IN  calls' = [calls EXCEPT ![c] =
             IF ~IsApprover(u) THEN Done(base, 403)
             ELSE IF ~InQueryset(u, pr) THEN Done(base, 404)
             ELSE IF ~is_superuser(u) /\ ~HasProfile(u) THEN Done(got, 400)
             ELSE IF pr.status # "pending" THEN Done(got, 400)
             ELSE IF approval_levels(t) = {} THEN Done(got, 400)
             ELSE IF lv = NoLevel THEN Done(got, 403)
             ELSE IF existing_approval(approvals, u, lv)
                  THEN Done([got EXCEPT !.level = lv, !.dup = TRUE], 400)
             ELSE [got EXCEPT !.level = lv, !.pc = "lock"]]
    /\ UNCHANGED <<pr, items, approvals, lock, tasks, others, outside>>

\* The body of `with transaction.atomic()`: the row is locked and read again,
\* the Approval is inserted, the status is decided and, on the final approval,
\* generate_purchase_order_task.delay() publishes the task. Nothing the body
\* wrote is visible to another process before ApprovalCommit.
ApprovalLocked(c) ==
    /\ calls[c].pc = "lock"
    /\ lock = 0
    /\ LET call0 == calls[c]
           u == call0.user
           row == pr
           call == [call0 EXCEPT !.reseen = row.status]
           new == Approval(u, call.level, ActionOf(call.op))
           signalled == update_purchase_request_status_on_rejection(row, new)
           hold(r) == [call EXCEPT !.pc = "commit", !.snap = r]
       IN  IF status_has_changed(row) THEN
               /\ calls' = [calls EXCEPT ![c] = Done(call, 400)]
               /\ UNCHANGED <<lock, tasks>>
           ELSE IF unique_together_violated(approvals, new) THEN
               /\ calls' = [calls EXCEPT ![c] =
                              Done([call EXCEPT !.dup = TRUE], 500)]
               /\ UNCHANGED <<lock, tasks>>
           ELSE IF new.action = "rejected" THEN
               /\ calls' = [calls EXCEPT ![c] =
                              hold([row EXCEPT !.status = "rejected"])]
               /\ lock' = c
               /\ UNCHANGED tasks
           ELSE IF approved_levels(Append(approvals, new))
                       >= required_levels(call0.snap.request_type) THEN
               /\ calls' = [calls EXCEPT ![c] =
                              hold([row EXCEPT !.status = "approved",
                                               !.approved_by = u])]
               /\ lock' = c
               /\ tasks' = [tasks EXCEPT ![c] =
                              [IdleTask EXCEPT !.kind = "po", !.pc = "queued"]]
           ELSE
               /\ calls' = [calls EXCEPT ![c] = hold(signalled)]
               /\ lock' = c
               /\ UNCHANGED tasks
    /\ UNCHANGED <<pr, items, approvals, others, outside>>

\* Leaving the atomic block commits the Approval and the row and releases the
\* lock; the handler answers 200.
ApprovalCommit(c) ==
    /\ calls[c].pc = "commit"
    /\ lock = c
    /\ LET call == calls[c]
           new == Approval(call.user, call.level, ActionOf(call.op))
       IN  /\ approvals' = Append(approvals, new)
           /\ pr' = call.snap
           /\ calls' = [calls EXCEPT ![c] =
                 Done([call EXCEPT !.created = TRUE, !.wrote = TRUE,
                                   !.moved = (pr.status = "pending"
                                              /\ call.snap.status # "pending")],
                      200)]
    /\ lock' = 0
    /\ UNCHANGED <<items, tasks, others, outside>>

\* An Approval saved outside the endpoint (Approval(...).save() as in
\* tests/test_approval_workflow.py): the INSERT is subject to unique_together
\* and to the row lock (its foreign-key check waits for the lock holder), and
\* post_save runs the rejection signal.
DirectCreators == {"appr1"}

DirectCreateApproval(u, lv, action) ==
    /\ pr.exists
    /\ lock = 0
    /\ lv \in {l.id : l \in {m \in ApprovalLevels :
                                 m.request_type = pr.request_type}}
    /\ LET new == Approval(u, lv, action)
       IN  /\ ~unique_together_violated(approvals, new)
           /\ approvals' = Append(approvals, new)
           /\ pr' = update_purchase_request_status_on_rejection(pr, new)
    /\ UNCHANGED <<items, lock, calls, tasks, others, outside>>

\* ------------------------------------------------------------------- items
\* Money is counted in thousandths of the currency unit: 1004 is 1.004.
\* An element of an `items` list, as a client or the extraction supplies it;
\* tp is a total_price the element may carry.
ItemData(d, q, p, tp) ==
    [description |-> d, quantity |-> q, unit_price |-> p, total_price |-> tp]

\* A DecimalField(max_digits=10, decimal_places=2) column of the PostgreSQL
\* store (settings.py DATABASES): numeric(10, 2) rounds the value written to
\* two decimal places, half away from zero.
quantize(m) == ((m + 5) \div 10) * 10

\* RequestItem.save and the row it stores: total_price is computed from
\* quantity and unit_price as they are on the instance, then each decimal
\* column is rounded by the store.
RequestItem(d, q, p) ==
    [description |-> d, quantity |-> q, unit_price |-> quantize(p),
     total_price |-> quantize(q * p)]

\* The loops that create a RequestItem per element of a list. The create
\* serializer and process_proforma skip an element whose description is
\* empty (skip_empty), the update serializer does not.
RECURSIVE create_items(_, _)
create_items(list, skip_empty) ==
    IF list = <<>> THEN <<>>
    ELSE LET d == Head(list)
             rest == create_items(Tail(list), skip_empty)
         IN  IF skip_empty /\ d.description = "" THEN rest
             ELSE << RequestItem(d.description, d.quantity, d.unit_price) >>
                      \o rest

\* the `items` key of a create/update payload: absent, or a list
NoItems == [given |-> FALSE, list |-> <<>>]

ItemsInputs ==
    { NoItems,
      [given |-> TRUE, list |-> <<>>],
      [given |-> TRUE, list |-> << ItemData("pen", 2, 3000, 1) >>] }

\* what extract_proforma_data found: no items, or one item
ExtractedItems == { <<>>, << ItemData("ink", 1, 5000, 5000) >> }

Enqueue(c, kind) ==
    [tasks EXCEPT ![c] = [IdleTask EXCEPT !.kind = kind, !.pc = "queued"]]

\* ------------------------------------------------------------------ create
\* The body of a create request. created_by and status are keys a client may
\* add to it: NoUser and "none" stand for a key that is not sent.
Payload(t, pf, its, cb, st) ==
    [request_type_id |-> t, proforma |-> pf, items |-> its,
     created_by |-> cb, status |-> st]

\* a serializer that also accepts the status key
CreateFieldsWithStatus ==
    {"title", "description", "amount", "request_type_id", "proforma", "items",
     "status"}

\* PurchaseRequestCreateSerializer.Meta.fields
CreateFields ==
    {"title", "description", "amount", "request_type_id", "proforma", "items"}

\* serializer.validated_data: the keys of the body that are serializer fields
validated_data(data) ==
    [k \in CreateFields \cap DOMAIN data |-> data[k]]

\* PurchaseRequest.objects.create(**validated_data) after the serializer set
\* created_by to the request's user: a column without a value takes the
\* model's default.
create_row(u, vd) ==
    LET given(k) == k \in DOMAIN vd /\ vd[k] # "none"
    IN  Row(IF given("status") THEN vd["status"] ELSE "pending",
            NoUser, 0, vd["request_type_id"], u, vd["proforma"], 0, 0, 0, FALSE)

\* PurchaseRequestViewSet.create up to serializer.save(): the role check, then
\* PurchaseRequestCreateSerializer.create inserts the row (status 'pending',
\* created_by the caller) and the manual items.
CreateInsert(c, u, data) ==
    /\ NextSlot(c)
    /\ ~pr.exists
    /\ LET base == [IdleCall EXCEPT !.op = "create", !.user = u,
                                    !.supplied = [created_by |-> data.created_by,
                                                  status |-> data.status]]
           vd == validated_data(data)
           row == create_row(u, vd)
           its == vd["items"]
       IN  IF ~is_superuser(u) /\ ~HasProfile(u) THEN
               /\ calls' = [calls EXCEPT ![c] = Done(base, 400)]
               /\ UNCHANGED <<pr, items>>
           ELSE IF ~is_superuser(u) /\ role(u) # "staff" THEN
               /\ calls' = [calls EXCEPT ![c] = Done(base, 403)]
               /\ UNCHANGED <<pr, items>>
           ELSE
               /\ pr' = row
               /\ items' = create_items(its.list, TRUE)
               /\ calls' = [calls EXCEPT ![c] =
                     [base EXCEPT !.pc = "save", !.snap = row,
                                  !.seen = row.status, !.wrote = TRUE]]
    /\ UNCHANGED <<approvals, lock, tasks, others, outside>>

\* The rest of create: submitted_at is set on the instance serializer.save()
\* returned and the instance is saved again (every column is written), then
\* process_proforma is enqueued when a proforma was uploaded.
CreateSave(c) ==
    /\ calls[c].op = "create"
    /\ calls[c].pc = "save"
    /\ lock = 0
    /\ pr' = calls[c].snap
    /\ tasks' = IF calls[c].snap.proforma # 0 THEN Enqueue(c, "proforma")
                ELSE tasks
    /\ calls' = [calls EXCEPT ![c] = Done(calls[c], 201)]
    /\ UNCHANGED <<items, approvals, lock, others, outside>>

\* ------------------------------------------------------------------ update
\* PurchaseRequestUpdateSerializer.validate
validate_update(instance) == can_be_edited(instance)

\* PurchaseRequestViewSet.update up to perform_update: get_object, the owner
\* check, the pending check and serializer.is_valid on the instance read.
UpdateBegin(c, u, ti, t, pf, its) ==
    /\ NextSlot(c)
    /\ pr.exists
    /\ LET base == [IdleCall EXCEPT !.op = "update", !.user = u,
                                    !.seen = pr.status]
           instance == pr
       IN  calls' = [calls EXCEPT ![c] =
             IF ~InQueryset(u, pr) THEN Done(base, 404)
             ELSE IF ~is_superuser(u) /\ instance.created_by # u
                  THEN Done(base, 403)
             ELSE IF ~is_superuser(u) /\ ~can_be_edited(instance)
                  THEN Done(base, 400)
             ELSE IF ~validate_update(instance) THEN Done(base, 400)
             ELSE [base EXCEPT !.pc = "save", !.snap = instance, !.title = ti,
                               !.rtype = t, !.proforma = pf, !.items = its]]
    /\ UNCHANGED <<pr, items, approvals, lock, tasks, others, outside>>

\* PurchaseRequestUpdateSerializer.update up to the deletion of the items:
\* the fields are set on the instance read by get_object, instance.save()
\* writes every column and, when the body held an items list, the request's
\* items are deleted. Without an items list the call ends here: the view
\* enqueues process_proforma when the body held a proforma, and answers.
UpdateSave(c) ==
    /\ calls[c].op = "update"
    /\ calls[c].pc = "save"
    /\ lock = 0
    /\ LET call == calls[c]
           typed == IF call.rtype # "none"
                    THEN [call.snap EXCEPT !.request_type = call.rtype]
                    ELSE call.snap
           filed == IF call.proforma # 0
                    THEN [typed EXCEPT !.proforma = call.proforma]
                    ELSE typed
           row == [filed EXCEPT !.title = call.title]
       IN  /\ pr' = row
           /\ IF call.items.given THEN
                  /\ items' = <<>>
                  /\ calls' = [calls EXCEPT ![c] =
                        [call EXCEPT !.pc = "items", !.wrote = TRUE, !.snap = NoRow]]
                  /\ UNCHANGED tasks
              ELSE
                  /\ UNCHANGED items
                  /\ tasks' = IF call.proforma # 0 /\ row.proforma # 0
                              THEN Enqueue(c, "proforma") ELSE tasks
                  /\ calls' = [calls EXCEPT ![c] =
                                 Done([call EXCEPT !.wrote = TRUE], 200)]
    /\ UNCHANGED <<approvals, lock, others, outside>>

\* The rest of an update whose body held an items list: a RequestItem is
\* created per element, then the view reads the row again, enqueues
\* process_proforma when the body held a proforma, and answers. Nothing ties
\* the deletion and the creations together: each statement commits alone.
UpdateItems(c) ==
    /\ calls[c].op = "update"
    /\ calls[c].pc = "items"
    /\ lock = 0
    /\ items' = items \o create_items(calls[c].items.list, FALSE)
    /\ tasks' = IF calls[c].proforma # 0 /\ pr.proforma # 0
                THEN Enqueue(c, "proforma") ELSE tasks
    /\ calls' = [calls EXCEPT ![c] = Done(calls[c], 200)]
    /\ UNCHANGED <<pr, approvals, lock, others, outside>>

\* ---------------------------------------------------------- submit receipt
\* PurchaseRequestViewSet.submit_receipt up to the save: IsStaff, get_object,
\* the owner check and the approved check.
SubmitBegin(c, u) ==
    /\ NextSlot(c)
    /\ pr.exists
    /\ LET base == [IdleCall EXCEPT !.op = "submit", !.user = u,
                                    !.seen = pr.status]
       IN  calls' = [calls EXCEPT ![c] =
             IF ~IsStaff(u) THEN Done(base, 403)
             ELSE IF ~InQueryset(u, pr) THEN Done(base, 404)
             ELSE IF ~is_superuser(u) /\ pr.created_by # u THEN Done(base, 403)
             ELSE IF pr.status # "approved" THEN Done(base, 400)
             ELSE [base EXCEPT !.pc = "save", !.snap = pr]]
    /\ UNCHANGED <<pr, items, approvals, lock, tasks, others, outside>>

\* The receipt is set on the instance read by get_object, the instance is
\* saved (every column is written) and validate_receipt_task is enqueued.
SubmitSave(c) ==
    /\ calls[c].op = "submit"
    /\ calls[c].pc = "save"
    /\ lock = 0
    /\ pr' = [calls[c].snap EXCEPT !.receipt = 1]
    /\ tasks' = Enqueue(c, "receipt")
    /\ calls' = [calls EXCEPT ![c] = Done([calls[c] EXCEPT !.wrote = TRUE], 200)]
    /\ UNCHANGED <<items, approvals, lock, others, outside>>

\* ------------------------------------------------------------ Celery tasks
TaskDone(c, res) ==
    [tasks EXCEPT ![c] = [@ EXCEPT !.pc = "done", !.snap = NoRow, !.result = res]]

TaskWork(c, row) ==
    [tasks EXCEPT ![c] = [@ EXCEPT !.pc = "work", !.snap = row]]

\* process_proforma: the row is read; without a proforma the task returns an
\* error, otherwise it goes on to extract_proforma_data.
process_proforma_start(c) ==
    /\ tasks[c].kind = "proforma"
    /\ tasks[c].pc = "queued"
    /\ tasks' = IF pr.proforma = 0 THEN TaskDone(c, "error")
                ELSE TaskWork(c, pr)
    /\ UNCHANGED <<pr, items, approvals, lock, calls, others, outside>>

\* process_proforma after the extraction: the extracted data is set on the
\* instance read at the start, the instance is saved (every column is
\* written), and purchase_request.items.exists() is asked. The task goes on
\* to create items when the extraction found some and the request has none.
process_proforma_finish(c, extracted) ==
    /\ tasks[c].kind = "proforma"
    /\ tasks[c].pc = "work"
    /\ lock = 0
    /\ pr' = [tasks[c].snap EXCEPT !.proforma_extracted_data = 1]
    /\ tasks' = IF extracted # <<>> /\ items = <<>>
                THEN [tasks EXCEPT ![c] = [@ EXCEPT !.pc = "items",
                                                    !.snap = NoRow,
                                                    !.extracted = extracted]]
                ELSE TaskDone(c, "success")
    /\ UNCHANGED <<items, approvals, lock, calls, others, outside>>

\* process_proforma, the loop over the extracted items: a RequestItem is
\* created per element; items.exists() is not asked again.
process_proforma_items(c) ==
    /\ tasks[c].kind = "proforma"
    /\ tasks[c].pc = "items"
    /\ lock = 0
    /\ items' = items \o create_items(tasks[c].extracted, TRUE)
    /\ tasks' = [TaskDone(c, "success") EXCEPT ![c].extracted = <<>>]
    /\ UNCHANGED <<pr, approvals, lock, calls, others, outside>>

\* a task that renders a purchase order whether or not one is attached
generate_purchase_order_start_again(c) ==
    /\ tasks[c].kind = "po"
    /\ tasks[c].pc = "queued"
    /\ tasks' = IF pr.status # "approved" THEN TaskDone(c, "error")
                ELSE TaskWork(c, pr)
    /\ UNCHANGED <<pr, items, approvals, lock, calls, others, outside>>

\* generate_purchase_order_task: the row is read; a request that is not
\* approved gives an error result, one that has a purchase order a success.
generate_purchase_order_start(c) ==
    /\ tasks[c].kind = "po"
    /\ tasks[c].pc = "queued"
    /\ tasks' = IF pr.status # "approved" THEN TaskDone(c, "error")
                ELSE IF pr.purchase_order # 0 THEN TaskDone(c, "success")
                ELSE TaskWork(c, pr)
    /\ UNCHANGED <<pr, items, approvals, lock, calls, others, outside>>

\* generate_purchase_order_task after rendering: purchase_order.save(...,
\* save=True) stores the file this run rendered, numbered by the run, and
\* saves the instance read at the start (every column is written).
generate_purchase_order_finish(c) ==
    /\ tasks[c].kind = "po"
    /\ tasks[c].pc = "work"
    /\ lock = 0
    /\ pr' = [tasks[c].snap EXCEPT !.purchase_order = c]
    /\ tasks' = TaskDone(c, "success")
    /\ UNCHANGED <<items, approvals, lock, calls, others, outside>>

\* a task that validates a receipt whether or not a purchase order exists
validate_receipt_start_without_order(c) ==
    /\ tasks[c].kind = "receipt"
    /\ tasks[c].pc = "queued"
    /\ tasks' = IF pr.receipt = 0 THEN TaskDone(c, "error")
                ELSE TaskWork(c, pr)
    /\ UNCHANGED <<pr, items, approvals, lock, calls, others, outside>>

\* validate_receipt_task: the row is read; without a receipt or without a
\* purchase order the task returns an error.
validate_receipt_start(c) ==
    /\ tasks[c].kind = "receipt"
    /\ tasks[c].pc = "queued"
    /\ tasks' = IF pr.receipt = 0 THEN TaskDone(c, "error")
                ELSE IF pr.purchase_order = 0 THEN TaskDone(c, "error")
                ELSE TaskWork(c, pr)
    /\ UNCHANGED <<pr, items, approvals, lock, calls, others, outside>>

\* validate_receipt_task after the validation: the verdict is set on the
\* instance read at the start and the instance is saved.
validate_receipt_finish(c, valid) ==
    /\ tasks[c].kind = "receipt"
    /\ tasks[c].pc = "work"
    /\ lock = 0
    /\ pr' = [tasks[c].snap EXCEPT !.receipt_validated = valid]
    /\ tasks' = TaskDone(c, "success")
    /\ UNCHANGED <<items, approvals, lock, calls, others, outside>>

\* ------------------------------------------------ the API and the workers
Creators == {"staff1", "appr1"}
CreateTypes == {"t1", "t2"}
Updaters == {"staff1", "staff2", "su"}
UpdateTypes == {"none"}
Approvers == {"appr1", "appr2", "su"}
Submitters == {"staff1", "fin"}

Init ==
    /\ pr = NoRow
    /\ items = <<>>
    /\ approvals = <<>>
    /\ lock = 0
    /\ calls = [c \in Calls |-> IdleCall]
    /\ tasks = [c \in Calls |-> IdleTask]
    /\ others = <<>>
    /\ OutsideIdle

Next ==
    \/ \E c \in Calls, u \in Creators, t \in CreateTypes, pf \in {0, 1},
          its \in ItemsInputs :
          CreateInsert(c, u, Payload(t, pf, its, NoUser, "none"))
    \/ \E c \in Calls : CreateSave(c)
    \/ \E c \in Calls, u \in Updaters, t \in UpdateTypes, pf \in {0, 1},
          its \in ItemsInputs : UpdateBegin(c, u, 1, t, pf, its)
    \/ \E c \in Calls : UpdateSave(c)
    \/ \E c \in Calls : UpdateItems(c)
    \/ \E c \in Calls, u \in Approvers, op \in {"approve", "reject"} :
          ApprovalBegin(c, u, op)
    \/ \E c \in Calls : ApprovalLocked(c)
    \/ \E c \in Calls : ApprovalCommit(c)
    \/ \E c \in Calls, u \in Submitters : SubmitBegin(c, u)
    \/ \E c \in Calls : SubmitSave(c)
    \/ \E c \in Calls : process_proforma_start(c)
    \/ \E c \in Calls, ex \in ExtractedItems : process_proforma_finish(c, ex)
    \/ \E c \in Calls : process_proforma_items(c)
    \/ \E c \in Calls : generate_purchase_order_start(c)
    \/ \E c \in Calls : generate_purchase_order_finish(c)
    \/ \E c \in Calls : validate_receipt_start(c)
    \/ \E c \in Calls, v \in BOOLEAN : validate_receipt_finish(c, v)

Spec == Init /\ [][Next]_vars

\* ------------------------------------------------------- approval workflow
ApprovalCallers == {"appr1", "appr1b", "appr2", "su", "staff1"}

InitRow(t) == Row("pending", NoUser, 0, t, "staff1", 0, 0, 0, 0, FALSE)

InitApproval ==
    /\ pr \in {InitRow(t) : t \in Types}
    /\ items = <<>>
    /\ approvals = <<>>
    /\ lock = 0
    /\ calls = [c \in Calls |-> IdleCall]
    /\ tasks = [c \in Calls |-> IdleTask]
    /\ others = <<>>
    /\ OutsideIdle

NextApproval ==
    \/ \E c \in Calls, u \in ApprovalCallers, op \in {"approve", "reject"} :
          ApprovalBegin(c, u, op)
    \/ \E c \in Calls : ApprovalLocked(c)
    \/ \E c \in Calls : ApprovalCommit(c)

SpecApproval == InitApproval /\ [][NextApproval]_vars

\* The approval calls together with Approvals saved outside the endpoint.
DirectCallers == {"appr1", "appr2"}

NextDirect ==
    \/ \E c \in Calls, u \in DirectCallers, op \in {"approve", "reject"} :
          ApprovalBegin(c, u, op)
    \/ \E c \in Calls : ApprovalLocked(c)
    \/ \E c \in Calls : ApprovalCommit(c)
    \/ \E u \in DirectCreators, l \in ApprovalLevels,
          action \in {"approved", "rejected"} :
          DirectCreateApproval(u, l.id, action)

SpecDirect == InitApproval /\ [][NextDirect]_vars

\* ------------------------------------------------------- list and retrieve
\* The rows of the purchaserequest table as the list endpoint sees them: the
\* request under study has id 1, the others have ids from 2.
RequestIds == 1..(1 + MaxOthers)

ListedRow(id, u, st) == [id |-> id, created_by |-> u, status |-> st]

AllRequests ==
    (IF pr.exists THEN {ListedRow(1, pr.created_by, pr.status)} ELSE {})
        \cup {others[id] : id \in {i \in DOMAIN others : others[i].id = i}}

\* get_queryset that never narrows to the caller's own requests
get_queryset_unscoped(u, status_filter, queryset) ==
    IF ~is_superuser(u) /\ ~HasProfile(u) THEN {}
    ELSE IF status_filter # ""
         THEN {r \in queryset : r.status = status_filter}
    ELSE queryset

\* PurchaseRequestViewSet.get_queryset; status_filter is the `status` query
\* parameter, "" when it is absent or empty.
get_queryset(u, status_filter, queryset) ==
    LET filtered(q) == IF status_filter # ""
                       THEN {r \in q : r.status = status_filter}
                       ELSE q
    IN  IF is_superuser(u) THEN filtered(queryset)
        ELSE IF ~HasProfile(u) THEN {}
        ELSE IF role(u) = "staff"
             THEN filtered({r \in queryset : r.created_by = u})
        ELSE filtered(queryset)

\* list: the ids of the caller's queryset. The call reads and writes nothing,
\* so one call per behaviour, in slot 1, shows all there is to see.
ListCall(u, status_filter) ==
    /\ calls[1].op = "idle"
    /\ calls' = [calls EXCEPT ![1] =
          Done([IdleCall EXCEPT !.op = "list", !.user = u,
                                !.status_filter = status_filter,
                                !.result = {r.id : r \in
                                    get_queryset(u, status_filter, AllRequests)}],
               200)]
    /\ UNCHANGED <<pr, items, approvals, lock, tasks, others, outside>>

\* retrieve: get_object looks the id up in the caller's queryset.
RetrieveCall(u, id, status_filter) ==
    /\ calls[1].op = "idle"
    /\ LET found == {r \in get_queryset(u, status_filter, AllRequests) : r.id = id}
           base == [IdleCall EXCEPT !.op = "retrieve", !.user = u,
                                    !.status_filter = status_filter,
                                    !.target = id,
                                    !.result = {r.id : r \in found}]
       IN  calls' = [calls EXCEPT ![1] =
                        Done(base, IF found = {} THEN 404 ELSE 200)]
    /\ UNCHANGED <<pr, items, approvals, lock, tasks, others, outside>>

StatusFilters == {"", "pending", "approved", "rejected"}

RequestOwners == {"staff1", "staff2", "su"}

\* an id that has no row
Absent == ListedRow(0, NoUser, "none")

\* every table of at most MaxOthers other rows: each id has a row or none
OtherTables ==
    { T \in [RequestIds \ {1} ->
                {Absent} \cup { ListedRow(id, u, st) :
                                   id \in RequestIds \ {1}, u \in RequestOwners,
                                   st \in {"pending", "approved", "rejected"} }] :
        \A id \in RequestIds \ {1} : T[id] = Absent \/ T[id].id = id }

InitList ==
    /\ pr = InitRow("t1")
    /\ items = <<>>
    /\ approvals = <<>>
    /\ lock = 0
    /\ calls = [c \in Calls |-> IdleCall]
    /\ tasks = [c \in Calls |-> IdleTask]
    /\ others \in OtherTables
    /\ OutsideIdle

NextList ==
    \/ \E u \in Users, f \in StatusFilters : ListCall(u, f)
    \/ \E u \in Users, id \in RequestIds, f \in StatusFilters :
          RetrieveCall(u, id, f)

SpecList == InitList /\ [][NextList]_vars

\* ------------------------------------------- updates among approval calls
EditUpdaters == {"staff1", "staff2", "appr1", "su"}
EditApprovers == {"appr1"}
EditItems == {[given |-> TRUE, list |-> << ItemData("pen", 2, 3000, 1) >>]}

InitEdit ==
    /\ pr = InitRow("t1")
    /\ items = <<>>
    /\ approvals = <<>>
    /\ lock = 0
    /\ calls = [c \in Calls |-> IdleCall]
    /\ tasks = [c \in Calls |-> IdleTask]
    /\ others = <<>>
    /\ OutsideIdle

NextEdit ==
    \/ \E c \in Calls, u \in EditUpdaters, its \in EditItems :
          UpdateBegin(c, u, 1, "none", 0, its)
    \/ \E c \in Calls : UpdateSave(c)
    \/ \E c \in Calls : UpdateItems(c)
    \/ \E c \in Calls, u \in EditApprovers, op \in {"approve", "reject"} :
          ApprovalBegin(c, u, op)
    \/ \E c \in Calls : ApprovalLocked(c)
    \/ \E c \in Calls : ApprovalCommit(c)

SpecEdit == InitEdit /\ [][NextEdit]_vars

\* --------------------------------------------------------- create requests
\* Every kind of caller, with and without the keys a client may add to make
\* itself someone else's request or an approved one.
CreateCallers == {"staff1", "appr1", "fin", "su", "noprof"}

CreatePayloads ==
    { Payload(t, pf, its, x[1], x[2]) :
        t \in CreateTypes, pf \in {0, 1},
        its \in {NoItems, [given |-> TRUE, list |-> << ItemData("pen", 2, 3000, 1) >>]},
        x \in { <<NoUser, "none">>, <<"su", "approved">> } }

NextCreate ==
    \/ \E c \in Calls, u \in CreateCallers, data \in CreatePayloads :
          CreateInsert(c, u, data)
    \/ \E c \in Calls : CreateSave(c)

SpecCreate == Init /\ [][NextCreate]_vars

\* ---------------------------------------------------------- submit receipts
\* A request of staff1 in each status; an approved one may or may not have its
\* purchase order yet.
SubmitCallers == {"staff1", "staff2", "appr1", "fin", "su", "noprof"}

SubmitRows ==
    { InitRow("t1"),
      [InitRow("t1") EXCEPT !.status = "rejected"] }
    \cup { [InitRow("t1") EXCEPT !.status = "approved", !.approved_by = "appr1",
                                 !.purchase_order = po] : po \in {0, 1} }

InitSubmit ==
    /\ pr \in SubmitRows
    /\ items = <<>>
    /\ approvals = <<>>
    /\ lock = 0
    /\ calls = [c \in Calls |-> IdleCall]
    /\ tasks = [c \in Calls |-> IdleTask]
    /\ others = <<>>
    /\ OutsideIdle

NextSubmit ==
    \/ \E c \in Calls, u \in SubmitCallers : SubmitBegin(c, u)
    \/ \E c \in Calls : SubmitSave(c)
    \/ \E c \in Calls : validate_receipt_start(c)
    \/ \E c \in Calls, v \in BOOLEAN : validate_receipt_finish(c, v)

SpecSubmit == InitSubmit /\ [][NextSubmit]_vars

\* -------------------------------------------------------- permission checks
\* APIView.check_permissions / check_object_permissions with one policy: the
\* two answers the policy gives for a caller, a method and an object.
CheckPermission(policy, user, method, is_creator) ==
    /\ decision = NoDecision
    /\ is_creator => user.is_authenticated
    /\ decision' =
          [policy |-> policy, user |-> user, method |-> method,
           is_creator |-> is_creator,
           has_permission |-> has_permission(policy, user),
           has_object_permission |->
               has_object_permission(policy, method, is_creator)]
    /\ UNCHANGED <<requests, accounts, replies, outbox, media, cleanup, upload>>

\* UserProfile.ROLE_CHOICES, and the role 'admin' that IsAdmin looks for
ProfileRoles ==
    {"staff", "approver_level_1", "approver_level_2", "finance", "admin"}

PermissionCallers ==
    {AnonymousUser} \cup
    { RequestUser(TRUE, su, prof) :
        su \in BOOLEAN, prof \in ProfileRoles \cup {DoesNotExist} }

HttpMethods == {"GET", "OPTIONS", "PATCH", "DELETE"}

NextPermission ==
    \E policy \in Policies, user \in PermissionCallers, method \in HttpMethods,
       is_creator \in BOOLEAN :
        CheckPermission(policy, user, method, is_creator)

SpecPermission == Init /\ [][NextPermission]_vars

\* ------------------------------------------------- accounts and profiles
\* A UserProfile row; exists is FALSE when the user has none. A value "none"
\* is a null column.
Profile(r, d, ph) ==
    [exists |-> TRUE, role |-> r, department |-> d, phone_number |-> ph]

NoProfile ==
    [exists |-> FALSE, role |-> "none", department |-> "none",
     phone_number |-> "none"]

\* A User row with its profile.
Account(un, em, pw, su, prof) ==
    [username |-> un, email |-> em, password |-> pw, is_superuser |-> su,
     profile |-> prof]

\* the body of a request: the keys of K, each with the value v gives it
Body(K, v) == [k \in K |-> v[k]]

Reply(op, caller, data, code) ==
    [op |-> op, caller |-> caller, data |-> data, status |-> code,
     emailed |-> FALSE, password_sent |-> FALSE]

\* is_admin of UserProfileView.update and UserDetailView.update
is_admin(account) ==
    account.is_superuser
        \/ (account.profile.exists /\ account.profile.role = "admin")

\* serializer.save() of a ModelSerializer: the keys of the body that are
\* fields of the row are set on it
save_fields(row, data) ==
    [k \in DOMAIN row |-> IF k \in DOMAIN data THEN data[k] ELSE row[k]]

\* UserProfileView.update (PUT and PATCH /api/auth/profile/) by the user of
\* account i. get_object is UserProfile.objects.get_or_create(user=...): a
\* caller without profile row gets one, with the default role 'staff',
\* before anything is checked.
ProfileUpdate(i, data) ==
    /\ Len(replies) < MaxCalls
    /\ i \in 1..Len(accounts)
    /\ LET instance == IF accounts[i].profile.exists THEN accounts[i].profile
                       ELSE Profile("staff", "none", "none")
           got == [accounts EXCEPT ![i].profile = instance]
       IN  IF ~is_admin(got[i]) /\ "department" \in DOMAIN data THEN
               /\ accounts' = got
               /\ replies' = Append(replies, Reply("profile", i, data, 403))
           ELSE
               /\ accounts' = [got EXCEPT ![i].profile =
                                  save_fields(instance, data)]
               /\ replies' = Append(replies, Reply("profile", i, data, 200))
    /\ UNCHANGED <<requests, decision, outbox, media, cleanup, upload>>

\* UserDetailSerializer.validate_username and the field's UniqueValidator
username_taken(accs, i, value) ==
    \E j \in 1..Len(accs) : j # i /\ accs[j].username = value

\* UserDetailView.update (PUT and PATCH /api/auth/user/) by the user of
\* account i; partial is TRUE for PATCH. username is the one required field.
AccountUpdate(i, data, partial) ==
    /\ Len(replies) < MaxCalls
    /\ i \in 1..Len(accounts)
    /\ LET instance == accounts[i]
           answer(code) == Append(replies, Reply("account", i, data, code))
       IN  IF ~is_admin(instance) /\ "username" \in DOMAIN data THEN
               /\ replies' = answer(403)
               /\ UNCHANGED accounts
           ELSE IF ~partial /\ "username" \notin DOMAIN data THEN
               /\ replies' = answer(400)
               /\ UNCHANGED accounts
           ELSE IF "username" \in DOMAIN data
                     /\ username_taken(accounts, i, data["username"]) THEN
               /\ replies' = answer(400)
               /\ UNCHANGED accounts
           ELSE
               /\ accounts' = [accounts EXCEPT ![i] = save_fields(instance, data)]
               /\ replies' = answer(200)
    /\ UNCHANGED <<requests, decision, outbox, media, cleanup, upload>>

ProfileBodies ==
    { Body(K, [department |-> "hr", phone_number |-> "555"]) :
        K \in SUBSET {"department", "phone_number"} }

AccountBodies ==
    { Body(K, [username |-> un, email |-> "new@x"]) :
        K \in SUBSET {"username", "email"}, un \in {"carol", "bob"} }

\* the caller's account in every shape, and the account of another user
CallerAccounts ==
    { Account("alice", "a@x", "pw", su, prof) :
        su \in BOOLEAN,
        prof \in {NoProfile} \cup
                 { Profile(r, d, "none") :
                     r \in {"staff", "finance", "admin"}, d \in {"none", "it"} } }

InitAccounts ==
    /\ pr = NoRow
    /\ items = <<>>
    /\ approvals = <<>>
    /\ lock = 0
    /\ calls = [c \in Calls |-> IdleCall]
    /\ tasks = [c \in Calls |-> IdleTask]
    /\ others = <<>>
    /\ decision = NoDecision
    /\ accounts \in
          { << a, Account("bob", "b@x", "pw", FALSE, Profile("staff", "it", "none")) >> :
              a \in CallerAccounts }
    /\ replies = <<>>
    /\ outbox = <<>>
    /\ media = EmptyMedia
    /\ cleanup = NoRun
    /\ upload = NoUpload

NextAccounts ==
    \/ \E data \in ProfileBodies : ProfileUpdate(1, data)
    \/ \E data \in AccountBodies, partial \in BOOLEAN :
          AccountUpdate(1, data, partial)

SpecAccounts == InitAccounts /\ [][NextAccounts]_vars

\* ------------------------------------------------------------ registration
\* UserRegistrationSerializer.validate: a password or a confirmation needs
\* the other and both must be equal; the username must be free.
registration_valid(accs, data) ==
    LET given(k) == k \in DOMAIN data
    IN  /\ (given("password") \/ given("password_confirm")) =>
              /\ given("password")
              /\ given("password_confirm")
              /\ data["password"] = data["password_confirm"]
        /\ ~username_taken(accs, 0, data["username"])

\* random.choices of 4 letters and 3 digits
GeneratedPasswords == {"Pass232", "Word787"}

\* UserRegistrationSerializer.create, last statement:
\* self.context['generated_password'] = password. password is by then the
\* supplied password, or the generated one when none was supplied.
generated_password(data, password) == password

\* register (POST /api/auth/register/, op "register") and
\* UserViewSet.create with perform_create (POST /api/users/ by an admin, op
\* "create_user"): serializer.is_valid, serializer.save, then the credentials
\* email when the context holds a generated_password. delivered tells whether
\* send_mail raised; the handlers log the failure and go on.
RegisterUser(op, data, gen, delivered) ==
    /\ Len(replies) < MaxCalls
    /\ IF ~registration_valid(accounts, data) THEN
           /\ replies' = Append(replies, Reply(op, 0, data, 400))
           /\ UNCHANGED <<accounts, outbox>>
       ELSE
           LET password == IF "password" \in DOMAIN data
                           THEN data["password"] ELSE gen
               user == Account(data["username"], data["email"], password, FALSE,
                               Profile("staff", "none", "none"))
               context == generated_password(data, password)
               mailed == context # ""
           IN  /\ accounts' = Append(accounts, user)
               /\ outbox' = IF mailed
                             THEN Append(outbox, [to |-> user.email,
                                                  username |-> user.username,
                                                  password |-> context,
                                                  delivered |-> delivered])
                             ELSE outbox
               /\ replies' = Append(replies,
                     [Reply(op, 0, data, 201) EXCEPT
                         !.emailed = mailed,
                         !.password_sent = (op = "register" /\ context # "")])
    /\ UNCHANGED <<requests, decision, media, cleanup, upload>>

RegistrationBodies ==
    { Body({"username", "email"} \cup K,
           [username |-> un, email |-> "new@x", password |-> "Secret#1",
            password_confirm |-> pc]) :
        K \in SUBSET {"password", "password_confirm"},
        un \in {"carol", "bob"}, pc \in {"Secret#1", "Secret#2"} }

InitRegister ==
    /\ pr = NoRow
    /\ items = <<>>
    /\ approvals = <<>>
    /\ lock = 0
    /\ calls = [c \in Calls |-> IdleCall]
    /\ tasks = [c \in Calls |-> IdleTask]
    /\ others = <<>>
    /\ decision = NoDecision
    /\ accounts =
          << Account("bob", "b@x", "pw", FALSE, Profile("staff", "it", "none")) >>
    /\ replies = <<>>
    /\ outbox = <<>>
    /\ media = EmptyMedia
    /\ cleanup = NoRun
    /\ upload = NoUpload

NextRegister ==
    \E op \in {"register", "create_user"}, data \in RegistrationBodies,
       gen \in GeneratedPasswords, delivered \in BOOLEAN :
        RegisterUser(op, data, gen, delivered)

SpecRegister == InitRegister /\ [][NextRegister]_vars

\* ------------------------------------------------------------------ claims
HasApproved(lv) ==
    \E i \in 1..Len(approvals) :
        approvals[i].approval_level = lv /\ approvals[i].action = "approved"

HasRejection == \E i \in 1..Len(approvals) : approvals[i].action = "rejected"

ApprovalOps == {"approve", "reject"}

\* C2: on a request type with the two required levels t2a (level 1,
\* approver_level_1) and t2b (level 2, approver_level_2): the request is never
\* approved while one of the two levels has no approved Approval; it is still
\* pending while no level-2 approval and no rejection is recorded; and when the
\* level-2 approver's approval is the one recorded after a level-1 approval,
\* the request is approved with approved_by that approver.
C2_TwoLevelCompletion ==
    pr.request_type = "t2" =>
        /\ pr.status = "approved" => HasApproved("t2a") /\ HasApproved("t2b")
        /\ (~HasApproved("t2b") /\ ~HasRejection) => pr.status = "pending"
        /\ ( /\ Len(approvals) >= 2
             /\ approvals[Len(approvals)] = Approval("appr2", "t2b", "approved")
             /\ HasApproved("t2a") )
           => pr.status = "approved" /\ pr.approved_by = "appr2"

C2_Witness ==
    /\ pr.request_type = "t2"
    /\ pr.status = "approved"
    /\ pr.approved_by = "appr2"
    /\ approvals = << Approval("appr1", "t2a", "approved"),
                      Approval("appr2", "t2b", "approved") >>

\* C3: among concurrent approve/reject calls on one pending request at most
\* one moves the status out of pending, the purchase-order task is enqueued at
\* most once, and a call that reads a non-pending status under the row lock
\* answers 400, inserts no Approval and writes nothing.
C3_LockSerializesApprovals ==
    /\ Cardinality({c \in Calls : calls[c].moved}) <= 1
    /\ Cardinality({c \in Calls : tasks[c].kind = "po"}) <= 1
    /\ \A c \in Calls :
          (calls[c].op \in ApprovalOps
           /\ calls[c].reseen \notin {"none", "pending"})
          => /\ calls[c].pc = "done"
             /\ calls[c].resp = 400
             /\ ~calls[c].created
             /\ ~calls[c].wrote
             /\ ~calls[c].moved

C3_Witness ==
    \E c, d \in Calls :
        /\ c # d
        /\ calls[c].moved
        /\ calls[d].seen = "pending"
        /\ calls[d].reseen \in {"approved", "rejected"}
        /\ calls[d].resp = 400

\* C4: every Approval with action 'rejected' that is recorded while the
\* request is pending, by the reject endpoint or by a direct save, leaves the
\* request rejected in the same step, whatever the request type's levels and
\* the approvals already recorded.
C4_RejectionCascade ==
    [][ ( /\ Len(approvals') = Len(approvals) + 1
          /\ approvals'[Len(approvals')].action = "rejected"
          /\ pr.status = "pending" )
        => pr'.status = "rejected" ]_vars

C4_Witness ==
    /\ pr.request_type = "t2"
    /\ pr.status = "rejected"
    /\ Len(approvals) = 2
    /\ approvals[1].action = "approved"
    /\ approvals[2] = Approval("appr1", "t2b", "rejected")

\* C5 (as claimed): a call by an approver who already has an Approval at the
\* matching level gets a 400-class answer, inserts no Approval and changes no
\* status, in every ordering of the two calls.
C5_SecondAttemptIs400 ==
    \A c \in Calls :
        (calls[c].op \in ApprovalOps /\ calls[c].dup)
        => /\ calls[c].resp \in 400..499
           /\ ~calls[c].created
           /\ ~calls[c].moved

\* C6: no two Approval rows of the request share approver and approval level.
C6_UniqueApproval ==
    \A i, j \in 1..Len(approvals) :
        ( /\ approvals[i].approver = approvals[j].approver
          /\ approvals[i].approval_level = approvals[j].approval_level )
        => i = j

C6_Witness ==
    /\ Len(approvals) >= 2
    /\ \E c \in Calls : calls[c].dup /\ calls[c].resp = 500

\* C1 (as claimed): once the stored status is approved or rejected it never
\* changes again, in every interleaving of the API calls and the tasks.
C1_FinalStatusAbsorbing ==
    [][is_final_status(pr) => pr'.status = pr.status]_vars

\* C7 (as claimed): when the call that approved the request has answered and
\* the purchase-order task it enqueued has run to its end, the request has a
\* purchase-order file, also when the worker started before the commit.
C7_ApprovalYieldsPurchaseOrder ==
    \A c \in Calls :
        ( /\ calls[c].op = "approve"
          /\ calls[c].pc = "done"
          /\ calls[c].resp = 200
          /\ tasks[c].kind = "po"
          /\ tasks[c].pc = "done" )
        => /\ tasks[c].result = "success"
           /\ pr.purchase_order # 0

\* C8: a request in a final status is not editable, and an update call by a
\* non-superuser that finds the request approved or rejected ends with a
\* 400-class answer and writes neither the row nor the items.
C8_EditLock ==
    /\ is_final_status(pr) => ~can_be_edited(pr)
    /\ \A c \in Calls :
          ( /\ calls[c].op = "update"
            /\ ~is_superuser(calls[c].user)
            /\ calls[c].seen \in {"approved", "rejected"} )
          => /\ calls[c].pc = "done"
             /\ calls[c].resp \in 400..499
             /\ ~calls[c].wrote

C8_Witness ==
    /\ pr.status = "approved"
    /\ \E c, d \in Calls :
          /\ calls[c].op = "update" /\ calls[c].user = "staff1"
          /\ calls[c].seen = "approved" /\ calls[c].resp = 400
          /\ calls[d].op = "update" /\ calls[d].user = "appr1"
          /\ calls[d].seen = "approved" /\ calls[d].resp = 403

\* C9 (as claimed): an update call by a superuser on a request it finds
\* approved or rejected succeeds and stores the new values.
C9_SuperuserBypass ==
    \A c \in Calls :
        ( /\ calls[c].op = "update"
          /\ is_superuser(calls[c].user)
          /\ calls[c].seen \in {"approved", "rejected"}
          /\ calls[c].pc = "done" )
        => calls[c].resp = 200 /\ calls[c].wrote

\* C10: a list call by a staff caller returns exactly the caller's own
\* requests that match the status filter; by an approver, finance or
\* superuser caller exactly all the requests that match it; retrieve finds a
\* request exactly when list would return it.
Matches(r, f) == f = "" \/ r.status = f

Listing(u, f) ==
    IF ~is_superuser(u) /\ role(u) = "staff"
    THEN {r.id : r \in {q \in AllRequests : q.created_by = u /\ Matches(q, f)}}
    ELSE {r.id : r \in {q \in AllRequests : Matches(q, f)}}

ListingRoles == {"staff", "approver_level_1", "approver_level_2", "finance"}

Subdirs == {"proformas", "purchase_orders", "receipts"}

\* A regular file directly under one of the directories: n stands for its
\* name, size is in bytes, age is the days since its modification time.
File(subdir, n, size, age) ==
    [subdir |-> subdir, n |-> n, size |-> size, age |-> age]

\* file_name = f'{subdir}/{file_path.name}'; a FileField of the row holds the
\* same form, the number of the file under the directory of its upload_to.
FileName(subdir, n) == <<subdir, n>>

\* the set of names the command collects from the PurchaseRequest table
referenced_files(row) ==
    IF ~row.exists THEN {}
    ELSE (IF row.proforma # 0
          THEN {FileName("proformas", row.proforma)} ELSE {})
         \cup (IF row.purchase_order # 0
               THEN {FileName("purchase_orders", row.purchase_order)} ELSE {})
         \cup (IF row.receipt # 0
               THEN {FileName("receipts", row.receipt)} ELSE {})

\* a decision that lets the age of a file count also in orphaned-only mode
should_delete_by_age(file, orphaned_only, days, referenced) ==
    \/ FileName(file.subdir, file.n) \notin referenced
    \/ file.age > days

\* The decision taken for a file: orphaned-only mode deletes a file that is
\* not referenced; the default mode also deletes a referenced file whose
\* modification time is before the cutoff.
should_delete(file, orphaned_only, days, referenced) ==
    IF orphaned_only
    THEN FileName(file.subdir, file.n) \notin referenced
    ELSE \/ FileName(file.subdir, file.n) \notin referenced
         \/ file.age > days

reason(file, days, referenced) ==
    IF FileName(file.subdir, file.n) \notin referenced
    THEN "orphaned (not in database)"
    ELSE <<"older than", days, "days">>

\* {x:.2f}: the quotient n / d in hundredths, rounded to the nearest (the
\* sizes used keep off the halves)
TwoPlaces(n, d) == (200 * n + d) \div (2 * d)

\* Command._format_size: the size is divided by 1024 until it is under 1024
\* or the units are used up; den is what it has been divided by so far.
RECURSIVE format_size_from(_, _, _)
format_size_from(size_bytes, den, units) ==
    IF units = <<>>
    THEN [hundredths |-> TwoPlaces(size_bytes, den), unit |-> "TB"]
    ELSE IF size_bytes < 1024 * den
         THEN [hundredths |-> TwoPlaces(size_bytes, den), unit |-> Head(units)]
         ELSE format_size_from(size_bytes, den * 1024, Tail(units))

format_size(size_bytes) == format_size_from(size_bytes, 1, <<"B", "KB", "MB", "GB">>)

\* deleted_size += file_size over a set of files
RECURSIVE TotalSize(_)
TotalSize(files) ==
    IF files = {} THEN 0
    ELSE LET f == CHOOSE x \in files : TRUE
         IN  f.size + TotalSize(files \ {f})

\* a line written for a file; an error line carries no size
Line(kind, file, why) ==
    [kind |-> kind, name |-> FileName(file.subdir, file.n),
     size |-> IF kind = "Error deleting"
              THEN [hundredths |-> 0, unit |-> "none"]
              ELSE format_size(file.size),
     reason |-> why]

\* Command.handle, one run of the command. failing are the files whose
\* unlink raises (a permission, a file held open); the lines of a directory
\* come in the order of iterdir, which is no order, so they are kept as a set.
handle(dry_run, days, orphaned_only, failing) ==
    /\ IF ~media.exists THEN
          /\ cleanup' = [ran |-> TRUE, dry_run |-> dry_run,
                         orphaned_only |-> orphaned_only, days |-> days,
                         before |-> media.files,
                         stdout |-> [NoOutput EXCEPT !.warning = TRUE]]
          /\ UNCHANGED media
       ELSE
          LET referenced == referenced_files(pr)
              chosen == {f \in media.files :
                           should_delete(f, orphaned_only, days, referenced)}
              unlinked == IF dry_run THEN {} ELSE chosen \ failing
              \* both counters are raised after a successful unlink only
              deleted_count == Cardinality(unlinked)
              deleted_size == TotalSize(unlinked)
              lines ==
                  {Line(IF dry_run THEN "Would delete"
                        ELSE IF f \in failing THEN "Error deleting"
                        ELSE "Deleted", f, reason(f, days, referenced)) :
                     f \in chosen}
          IN  /\ media' = [media EXCEPT !.files = @ \ unlinked]
              /\ cleanup' =
                   [ran |-> TRUE, dry_run |-> dry_run,
                    orphaned_only |-> orphaned_only, days |-> days,
                    before |-> media.files,
                    stdout |->
                      [warning |-> FALSE,
                       found |-> Cardinality(referenced),
                       checking |-> media.dirs,
                       lines |-> lines,
                       summary |->
                         [kind |-> IF dry_run THEN "DRY RUN: Would delete"
                                   ELSE "Deleted",
                          count |-> deleted_count,
                          size |-> format_size(deleted_size)]]]
    /\ UNCHANGED <<requests, decision, accounts, replies, outbox, upload>>

\* One request, with or without each of its three files.
CleanupRows ==
    {NoRow} \cup
    { Row("approved", "appr1", 1, "t1", "staff1", pf, po, rc, 0, FALSE) :
        pf \in {0, 1}, po \in {0, 1}, rc \in {0, 1} }

\* The files a media root may hold: number 1 of a directory is the one a row
\* may reference, number 2 never is. Ages are on both sides of the 90 days.
MediaFiles ==
    { File("proformas", 1, 300, 100),
      File("proformas", 2, 2048, 10),
      File("purchase_orders", 1, 100, 10),
      File("receipts", 1, 500, 100),
      File("receipts", 2, 700, 100) }

MediaRoots ==
    { [exists |-> FALSE, dirs |-> {}, files |-> {}] } \cup
    { [exists |-> TRUE, dirs |-> D, files |-> F] :
        D \in SUBSET Subdirs,
        F \in SUBSET MediaFiles }

InitCleanup ==
    /\ pr \in CleanupRows
    /\ items = <<>>
    /\ approvals = <<>>
    /\ lock = 0
    /\ calls = [c \in Calls |-> IdleCall]
    /\ tasks = [c \in Calls |-> IdleTask]
    /\ others = <<>>
    /\ decision = NoDecision
    /\ accounts = <<>>
    /\ replies = <<>>
    /\ outbox = <<>>
    /\ media \in {m \in MediaRoots : \A f \in m.files : f.subdir \in m.dirs}
    /\ cleanup = NoRun
    /\ upload = NoUpload

NextCleanup ==
    \E dry_run \in BOOLEAN, orphaned_only \in BOOLEAN,
       failing \in {{}, {File("receipts", 2, 700, 100)}} :
       handle(dry_run, 90, orphaned_only, failing)

SpecCleanup == InitCleanup /\ [][NextCleanup]_vars

\* ------------------------------------------------------------- file uploads
\* A text is the sequence of its characters.
\* settings.MAX_UPLOAD_SIZE, in bytes
MAX_UPLOAD_SIZE == 10485760

\* settings.ALLOWED_FILE_TYPES
ALLOWED_FILE_TYPES ==
    { <<"p", "d", "f">>, <<"j", "p", "g">>, <<"j", "p", "e", "g">>,
      <<"p", "n", "g">> }

\* str.lower on the letters used
lower_char(ch) ==
    CASE ch = "P" -> "p" [] ch = "D" -> "d" [] ch = "F" -> "f"
      [] ch = "E" -> "e" [] ch = "X" -> "x" [] OTHER -> ch

lower(text) == [i \in DOMAIN text |-> lower_char(text[i])]

\* str.split(sep): the pieces between the separators, at least one
RECURSIVE split_from(_, _, _)
split_from(text, sep, piece) ==
    IF text = <<>> THEN << piece >>
    ELSE IF Head(text) = sep
         THEN << piece >> \o split_from(Tail(text), sep, <<>>)
         ELSE split_from(Tail(text), sep, Append(piece, Head(text)))

split(text, sep) == split_from(text, sep, <<>>)

\* value.name.split('.')[-1].lower()
file_ext(name) ==
    LET parts == split(name, ".") IN lower(parts[Len(parts)])

\* The two checks that validate_proforma and validate_receipt share: the
\* size first, then the type.
validate_file(value) ==
    IF value.size > MAX_UPLOAD_SIZE
    THEN "File size exceeds maximum allowed size"
    ELSE IF file_ext(value.name) \notin ALLOWED_FILE_TYPES
         THEN "File type not allowed"
    ELSE "valid"

\* PurchaseRequestCreateSerializer.validate_proforma
validate_proforma(value) == validate_file(value)

\* ReceiptSubmissionSerializer.validate_receipt
validate_receipt(value) == validate_file(value)

\* the proforma field of the create serializer is given a file
CreateProformaField ==
    /\ upload.field = "create.proforma"
    /\ upload.answer = "none"
    /\ upload' = [upload EXCEPT !.answer = validate_proforma(upload.file)]
    /\ UNCHANGED <<requests, decision, accounts, replies, outbox, media, cleanup>>

\* the receipt field of the receipt serializer is given a file
ReceiptField ==
    /\ upload.field = "receipt"
    /\ upload.answer = "none"
    /\ upload' = [upload EXCEPT !.answer = validate_receipt(upload.file)]
    /\ UNCHANGED <<requests, decision, accounts, replies, outbox, media, cleanup>>

\* The proforma field of the update serializer is given a file: the
\* serializer has no validate_proforma, the model's FileField takes any
\* file that is not empty.
UpdateProformaField ==
    /\ upload.field = "update.proforma"
    /\ upload.answer = "none"
    /\ upload' = [upload EXCEPT !.answer = "valid"]
    /\ UNCHANGED <<requests, decision, accounts, replies, outbox, media, cleanup>>

\* Names with an allowed extension in each case, with another extension,
\* with several dots, ending in a dot, and without a dot.
UploadNames ==
    { <<"a", ".", "p", "d", "f">>,
      <<"a", ".", "P", "D", "F">>,
      <<"a", ".", "P", "d", "f">>,
      <<"a", ".", "e", "x", "e">>,
      <<"a", ".", "E", "X", "E">>,
      <<"a", ".", "p", "d", "f", ".", "e", "x", "e">>,
      <<"a", ".", "e", "x", "e", ".", "p", "d", "f">>,
      <<"a", ".", "p", "d">>,
      <<"a", ".">>,
      <<".", "p", "d", "f">>,
      <<"a">>,
      <<"p", "d", "f">> }

UploadSizes == {1, MAX_UPLOAD_SIZE - 1, MAX_UPLOAD_SIZE, MAX_UPLOAD_SIZE + 1}

UploadFields == {"create.proforma", "update.proforma", "receipt"}

InitUpload ==
    /\ pr = NoRow
    /\ items = <<>>
    /\ approvals = <<>>
    /\ lock = 0
    /\ calls = [c \in Calls |-> IdleCall]
    /\ tasks = [c \in Calls |-> IdleTask]
    /\ others = <<>>
    /\ decision = NoDecision
    /\ accounts = <<>>
    /\ replies = <<>>
    /\ outbox = <<>>
    /\ media = EmptyMedia
    /\ cleanup = NoRun
    /\ upload \in { [field |-> fd, file |-> [name |-> n, size |-> sz],
                     answer |-> "none"] :
                      fd \in UploadFields, n \in UploadNames, sz \in UploadSizes }

NextUpload ==
    \/ CreateProformaField
    \/ ReceiptField
    \/ UpdateProformaField

SpecUpload == InitUpload /\ [][NextUpload]_vars

\* ------------------------------------------------------- the tasks, retried
\* @shared_task(bind=True, max_retries=3, default_retry_delay=60)
max_retries == 3

\* a task that has been handed to the queue and has not ended
InFlight(kind) ==
    \E c \in Calls : tasks[c].kind = kind /\ tasks[c].pc \in {"queued", "work", "items"}

\* task.delay(request_id): the task of a kind is handed to the queue, by an
\* endpoint or by anyone who holds the id of the request.
TaskDelay(c, kind) ==
    /\ NextSlot(c)
    /\ calls' = [calls EXCEPT ![c] = Done([IdleCall EXCEPT !.op = "delay"], 0)]
    /\ tasks' = Enqueue(c, kind)
    /\ UNCHANGED <<pr, items, approvals, lock, others, outside>>

\* the same, once the earlier tasks of the kind have ended
TaskDelayInTurn(c, kind) ==
    /\ ~InFlight(kind)
    /\ TaskDelay(c, kind)

\* a retry that does not count
task_raises_uncounted(c) ==
    /\ tasks[c].pc \in {"queued", "work"}
    /\ tasks' = [tasks EXCEPT ![c] = [@ EXCEPT !.pc = "queued", !.snap = NoRow]]
    /\ UNCHANGED <<pr, items, approvals, lock, calls, others, outside>>

\* `except Exception as exc: raise self.retry(exc=exc)`: a statement of the
\* task (the read, the extraction or rendering, the save) raises something
\* other than DoesNotExist. self.retry hands the task to the queue again,
\* one retry more on its request, unless the request already counts
\* max_retries: then exc is raised and the task has failed for good.
task_raises(c) ==
    /\ tasks[c].pc \in {"queued", "work"}
    /\ tasks' = [tasks EXCEPT ![c] =
          IF @.retries < max_retries
          THEN [@ EXCEPT !.pc = "queued", !.snap = NoRow,
                         !.retries = @ + 1]
          ELSE [@ EXCEPT !.pc = "failed", !.snap = NoRow,
                         !.result = "failure"]]
    /\ UNCHANGED <<pr, items, approvals, lock, calls, others, outside>>

\* ---------------------------------------------- purchase-order task alone
\* A request in each status, or none, without a purchase order; the task is
\* run again and again, one run after the other.
PurchaseOrderRows ==
    { NoRow } \cup
    { Row(st, NoUser, 1, "t1", "staff1", 1, 0, 0, 0, FALSE) :
        st \in {"pending", "approved", "rejected"} }

InitPurchaseOrder ==
    /\ pr \in PurchaseOrderRows
    /\ items = <<>>
    /\ approvals = <<>>
    /\ lock = 0
    /\ calls = [c \in Calls |-> IdleCall]
    /\ tasks = [c \in Calls |-> IdleTask]
    /\ others = <<>>
    /\ OutsideIdle

NextPurchaseOrder ==
    \/ \E c \in Calls : TaskDelayInTurn(c, "po")
    \/ \E c \in Calls : generate_purchase_order_start(c)
    \/ \E c \in Calls : generate_purchase_order_finish(c)
    \/ \E c \in Calls : task_raises(c)

SpecPurchaseOrder == InitPurchaseOrder /\ [][NextPurchaseOrder]_vars

\* ------------------------------------------- receipts and purchase orders
\* The owner submits receipts for a request of SubmitRows
\* while the purchase-order task and the receipt task run.
ReceiptCallers == {"staff1"}

NextReceipt ==
    \/ \E c \in Calls, u \in ReceiptCallers : SubmitBegin(c, u)
    \/ \E c \in Calls : SubmitSave(c)
    \/ \E c \in Calls : validate_receipt_start(c)
    \/ \E c \in Calls, v \in BOOLEAN : validate_receipt_finish(c, v)
    \/ \E c \in Calls : TaskDelayInTurn(c, "po")
    \/ \E c \in Calls : generate_purchase_order_start(c)
    \/ \E c \in Calls : generate_purchase_order_finish(c)
    \/ \E c \in Calls : task_raises(c)

SpecReceipt == InitSubmit /\ [][NextReceipt]_vars

\* ------------------------------------------------------ the three tasks
\* generate_purchase_order_task finds the purchase_orders directory not
\* writable (os.access): an error result, nothing is written.
generate_purchase_order_unwritable(c) ==
    /\ tasks[c].kind = "po"
    /\ tasks[c].pc = "work"
    /\ tasks' = TaskDone(c, "error")
    /\ UNCHANGED <<pr, items, approvals, lock, calls, others, outside>>

\* no request, a pending one with a proforma, an approved one with a
\* proforma and a receipt
TaskRows ==
    { NoRow,
      Row("pending", NoUser, 1, "t1", "staff1", 1, 0, 0, 0, FALSE),
      Row("approved", "appr1", 1, "t1", "staff1", 1, 0, 1, 0, FALSE) }

TaskKinds == {"proforma", "po", "receipt"}

InitTasks ==
    /\ pr \in TaskRows
    /\ items = <<>>
    /\ approvals = <<>>
    /\ lock = 0
    /\ calls = [c \in Calls |-> IdleCall]
    /\ tasks = [c \in Calls |-> IdleTask]
    /\ others = <<>>
    /\ OutsideIdle

\* a step of the run of slot c that raises nothing
TaskStep(c) ==
    \/ process_proforma_start(c)
    \/ \E ex \in ExtractedItems : process_proforma_finish(c, ex)
    \/ process_proforma_items(c)
    \/ generate_purchase_order_start(c)
    \/ generate_purchase_order_finish(c)
    \/ generate_purchase_order_unwritable(c)
    \/ validate_receipt_start(c)
    \/ \E v \in BOOLEAN : validate_receipt_finish(c, v)

NextTasks ==
    \/ \E c \in 1..MaxTasks, kind \in TaskKinds : TaskDelayInTurn(c, kind)
    \/ \E c \in Calls : process_proforma_start(c)
    \/ \E c \in Calls, ex \in ExtractedItems : process_proforma_finish(c, ex)
    \/ \E c \in Calls : process_proforma_items(c)
    \/ \E c \in Calls : generate_purchase_order_start(c)
    \/ \E c \in Calls : generate_purchase_order_finish(c)
    \/ \E c \in Calls : generate_purchase_order_unwritable(c)
    \/ \E c \in Calls : validate_receipt_start(c)
    \/ \E c \in Calls, v \in BOOLEAN : validate_receipt_finish(c, v)
    \/ \E c \in Calls : task_raises(c)

\* A worker takes every task of the queue in the end (a retried one after
\* its delay), and a statement that does not raise comes to its end.
SpecTasks ==
    /\ InitTasks
    /\ [][NextTasks]_vars
    /\ \A c \in Calls : WF_vars(TaskStep(c))

\* ------------------------------------------- approvals and a changed type
\* A pending two-level request, its owner's updates (with and without a new
\* request_type_id, with and without an items list) and the approvers' calls.
RetypeTypes == {"none", "t1", "t3"}
RetypeApprovers == {"appr1", "appr2"}

InitRetype ==
    /\ pr = InitRow("t2")
    /\ items = <<>>
    /\ approvals = <<>>
    /\ lock = 0
    /\ calls = [c \in Calls |-> IdleCall]
    /\ tasks = [c \in Calls |-> IdleTask]
    /\ others = <<>>
    /\ OutsideIdle

NextRetype ==
    \/ \E c \in Calls, t \in RetypeTypes,
          its \in {NoItems, [given |-> TRUE, list |-> <<>>]} :
          UpdateBegin(c, "staff1", 1, t, 0, its)
    \/ \E c \in Calls : UpdateSave(c)
    \/ \E c \in Calls : UpdateItems(c)
    \/ \E c \in Calls, u \in RetypeApprovers, op \in {"approve", "reject"} :
          ApprovalBegin(c, u, op)
    \/ \E c \in Calls : ApprovalLocked(c)
    \/ \E c \in Calls : ApprovalCommit(c)

SpecRetype == InitRetype /\ [][NextRetype]_vars

\* ------------------------------------------- workflows without a superuser
\* A pending request of each configured type; every user whose role is the
\* approver_role of a required level of the type calls approve, once, in any
\* order and with any overlap.
WorkflowTypes == {"t1", "t2", "t4", "t5", "t6"}

WorkflowUsers(t) ==
    {u \in Users : /\ ~is_superuser(u)
                   /\ \E l \in approval_levels(t) : l.approver_role = role(u)}

ApproveInTurn(c, u) ==
    /\ u \in WorkflowUsers(pr.request_type)
    /\ \A d \in Calls : calls[d].user # u
    /\ ApprovalBegin(c, u, "approve")

InitWorkflow ==
    /\ pr \in {InitRow(t) : t \in WorkflowTypes}
    /\ items = <<>>
    /\ approvals = <<>>
    /\ lock = 0
    /\ calls = [c \in Calls |-> IdleCall]
    /\ tasks = [c \in Calls |-> IdleTask]
    /\ others = <<>>
    /\ OutsideIdle

NextWorkflow ==
    \/ \E c \in Calls, u \in Users : ApproveInTurn(c, u)
    \/ \E c \in Calls : ApprovalLocked(c)
    \/ \E c \in Calls : ApprovalCommit(c)

\* every call that was made runs to its answer
SpecWorkflow == InitWorkflow /\ [][NextWorkflow]_vars /\ WF_vars(NextWorkflow)

\* ------------------------------------------ items with an empty description
\* A request is created, updated by its owner and processed by
\* process_proforma; the lists the client sends and the extraction finds may
\* hold an element whose description is the empty string.
BlankItemsInputs ==
    { NoItems,
      [given |-> TRUE, list |-> << ItemData("", 1, 1000, 0) >>],
      [given |-> TRUE, list |-> << ItemData("pen", 2, 3000, 0) >>] }

BlankExtractedItems ==
    { <<>>, << ItemData("", 1, 5000, 5000) >>, << ItemData("ink", 1, 5000, 5000) >> }

NextBlank ==
    \/ \E c \in Calls, pf \in {0, 1}, its \in BlankItemsInputs :
          CreateInsert(c, "staff1", Payload("t1", pf, its, NoUser, "none"))
    \/ \E c \in Calls : CreateSave(c)
    \/ \E c \in Calls, its \in BlankItemsInputs :
          UpdateBegin(c, "staff1", 1, "none", 0, its)
    \/ \E c \in Calls : UpdateSave(c)
    \/ \E c \in Calls : UpdateItems(c)
    \/ \E c \in Calls : process_proforma_start(c)
    \/ \E c \in Calls, ex \in BlankExtractedItems : process_proforma_finish(c, ex)
    \/ \E c \in Calls : process_proforma_items(c)

SpecBlank == Init /\ [][NextBlank]_vars

\* ------------------------------------------------- who approved the request
\* A pending request with a proforma: its owner's updates (each sends the
\* proforma again, so process_proforma runs), the approvers' calls, the
\* owner's receipts and the three tasks, in any interleaving.
ApprovedByTypes == {"t1", "t2"}
ApprovedByApprovers == {"appr1", "su"}

InitApprovedBy ==
    /\ pr \in {Row("pending", NoUser, 0, t, "staff1", 1, 0, 0, 0, FALSE) :
                 t \in ApprovedByTypes}
    /\ items = <<>>
    /\ approvals = <<>>
    /\ lock = 0
    /\ calls = [c \in Calls |-> IdleCall]
    /\ tasks = [c \in Calls |-> IdleTask]
    /\ others = <<>>
    /\ OutsideIdle

NextApprovedBy ==
    \/ \E c \in Calls : UpdateBegin(c, "staff1", 1, "none", 1, NoItems)
    \/ \E c \in Calls : UpdateSave(c)
    \/ \E c \in Calls, u \in ApprovedByApprovers, op \in {"approve", "reject"} :
          ApprovalBegin(c, u, op)
    \/ \E c \in Calls : ApprovalLocked(c)
    \/ \E c \in Calls : ApprovalCommit(c)
    \/ \E c \in Calls : SubmitBegin(c, "staff1")
    \/ \E c \in Calls : SubmitSave(c)
    \/ \E c \in Calls : process_proforma_start(c)
    \/ \E c \in Calls : process_proforma_finish(c, <<>>)
    \/ \E c \in Calls : generate_purchase_order_start(c)
    \/ \E c \in Calls : generate_purchase_order_finish(c)
    \/ \E c \in Calls : validate_receipt_start(c)
    \/ \E c \in Calls, v \in BOOLEAN : validate_receipt_finish(c, v)

SpecApprovedBy == InitApprovedBy /\ [][NextApprovedBy]_vars

\* ------------------------------------------------------------ request items
\* RequestItem(...).save() outside the serializers and the task (the admin
\* inline, a shell): the caller may set a total_price, save overwrites it.
RequestItem_save(d, q, p, tp) ==
    /\ pr.exists
    /\ lock = 0
    /\ Len(items) < MaxItems
    /\ items' = Append(items, RequestItem(d, q, p))
    /\ UNCHANGED <<pr, approvals, lock, calls, tasks, others, outside>>

\* Item lists of a body: none, an empty one, one with a price in whole cents
\* and one with a price of 1.004.
PricedItems ==
    { NoItems,
      [given |-> TRUE, list |-> <<>>],
      [given |-> TRUE, list |-> << ItemData("pen", 2, 3000, 1) >>],
      [given |-> TRUE, list |-> << ItemData("pen", 3, 1004, 1) >>] }

NextItems ==
    \/ \E c \in Calls, pf \in {0, 1}, its \in PricedItems :
          CreateInsert(c, "staff1", Payload("t1", pf, its, NoUser, "none"))
    \/ \E c \in Calls : CreateSave(c)
    \/ \E c \in Calls, pf \in {0, 1}, its \in PricedItems :
          UpdateBegin(c, "staff1", 1, "none", pf, its)
    \/ \E c \in Calls : UpdateSave(c)
    \/ \E c \in Calls : UpdateItems(c)
    \/ \E c \in Calls : process_proforma_start(c)
    \/ \E c \in Calls, ex \in ExtractedItems : process_proforma_finish(c, ex)
    \/ \E c \in Calls : process_proforma_items(c)
    \/ \E p \in {2000, 1004} : RequestItem_save("cup", 3, p, 7)

SpecItems == Init /\ [][NextItems]_vars

\* C11: a create call by a caller that is neither a superuser nor of profile
\* role staff ends with a 400-class answer and inserts nothing; a stored
\* request was inserted by a create call of a staff or superuser caller, has
\* that caller as created_by, whatever created_by and status keys the body
\* held, and is pending.
MayCreate(u) == is_superuser(u) \/ (HasProfile(u) /\ role(u) = "staff")

C11_CreateGuard ==
    /\ \A c \in Calls :
          (calls[c].op = "create" /\ ~MayCreate(calls[c].user))
          => /\ calls[c].pc = "done"
             /\ calls[c].resp \in 400..499
             /\ ~calls[c].wrote
    /\ pr.exists =>
          /\ pr.status = "pending"
          /\ \E c \in Calls :
                /\ calls[c].op = "create"
                /\ calls[c].wrote
                /\ MayCreate(calls[c].user)
                /\ pr.created_by = calls[c].user
    /\ ~pr.exists => \A c \in Calls : ~calls[c].wrote

C11_Witness ==
    /\ pr.exists
    /\ pr.created_by = "staff1"
    /\ pr.status = "pending"
    /\ \E c, d \in Calls :
          /\ calls[c].user = "appr1" /\ calls[c].resp = 403
          /\ calls[d].user = "staff1" /\ calls[d].resp = 201
          /\ calls[d].supplied = [created_by |-> "su", status |-> "approved"]

\* C12 (as claimed): a submit-receipt call stores the receipt and enqueues the
\* validation task only when the caller is the creator with role staff, or a
\* superuser, and found the request approved; every other call has answered
\* 403 or 400, has not written the row and has enqueued no task.
MaySubmit(u, row) ==
    is_superuser(u) \/ (HasProfile(u) /\ role(u) = "staff" /\ row.created_by = u)

C12_SubmitReceiptGuard ==
    \A c \in Calls :
        calls[c].op = "submit" =>
            IF MaySubmit(calls[c].user, pr) /\ calls[c].seen = "approved"
            THEN calls[c].pc = "done" =>
                    /\ calls[c].resp = 200
                    /\ calls[c].wrote
                    /\ tasks[c].kind = "receipt"
            ELSE /\ calls[c].pc = "done"
                 /\ calls[c].resp \in {400, 403}
                 /\ ~calls[c].wrote
                 /\ tasks[c].kind = "none"

\* C13 (as claimed): every policy denies an unauthenticated caller and every
\* authenticated caller that has no profile row.
Denied == ~decision.has_permission \/ ~decision.has_object_permission

C13_AllPoliciesDeny ==
    ( /\ decision # NoDecision
      /\ \/ ~decision.user.is_authenticated
         \/ decision.user.profile = DoesNotExist )
    => Denied

\* C13 (amended): each of the seven role policies denies an unauthenticated
\* caller and an authenticated caller without profile row who is not a
\* superuser; a superuser without profile row passes IsStaff, IsFinance,
\* IsApprover, IsStaffOrFinance and IsAdmin and is denied by IsApproverLevel1
\* and IsApproverLevel2; IsOwnerOrReadOnly looks at neither authentication
\* nor profile: it permits every safe method and permits another method
\* exactly when the caller is the object's creator.
C13_RolePoliciesDeny ==
    decision # NoDecision =>
        LET user == decision.user
            policy == decision.policy
        IN  IF policy \in RolePolicies
            THEN /\ ~user.is_authenticated => Denied
                 /\ ( /\ user.is_authenticated
                      /\ user.profile = DoesNotExist
                      /\ ~user.is_superuser ) => Denied
                 /\ ( /\ user.is_authenticated
                      /\ user.profile = DoesNotExist
                      /\ user.is_superuser )
                    => (Denied <=>
                          policy \in {"IsApproverLevel1", "IsApproverLevel2"})
            ELSE Denied <=>
                    (decision.method \notin SAFE_METHODS /\ ~decision.is_creator)

C13_Witness ==
    /\ decision.policy = "IsAdmin"
    /\ decision.user = RequestUser(TRUE, TRUE, DoesNotExist)
    /\ ~Denied

\* C14 (as claimed): a profile update whose body has a department key, or an
\* account update whose body has a username key, by a caller who is neither
\* superuser nor of profile role admin, is answered 403 and changes no stored
\* field of the caller's profile and account.
Restricted(reply) ==
    \/ reply.op = "profile" /\ "department" \in DOMAIN reply.data
    \/ reply.op = "account" /\ "username" \in DOMAIN reply.data

C14_RestrictedFieldFrame ==
    [][ ( /\ Len(replies') = Len(replies) + 1
          /\ Restricted(replies'[Len(replies')])
          /\ ~is_admin(accounts[replies'[Len(replies')].caller]) )
        => /\ replies'[Len(replies')].status = 403
           /\ accounts' = accounts ]_vars

\* C15 (as claimed): a registration that succeeds hands a credentials email
\* to send_mail exactly when the body held no password, and the register
\* endpoint reports password_sent true exactly then.
C15_EmailOnlyWhenGenerated ==
    \A n \in 1..Len(replies) :
        LET reply == replies[n]
            supplied == "password" \in DOMAIN reply.data
        IN  (reply.op \in {"register", "create_user"} /\ reply.status = 201)
            => /\ reply.emailed <=> ~supplied
               /\ reply.op = "register" => (reply.password_sent <=> ~supplied)

\* C16: every stored RequestItem has total_price equal to quantity times
\* unit_price, exactly, whichever way it was saved and whatever total_price
\* the caller supplied.
C16_TotalPriceExact ==
    \A i \in 1..Len(items) :
        items[i].total_price = items[i].quantity * items[i].unit_price

\* items a client supplied in a body, and items the task made from a proforma
ManualItems == {i \in 1..Len(items) : items[i].description = "pen"}

ProformaItems == {i \in 1..Len(items) : items[i].description = "ink"}

\* C17: manual items take precedence over proforma items under every
\* interleaving of process_proforma with create and update: the request
\* never holds both kinds, and the task writes its items only when the
\* request has no item at that moment.
C17_ManualPrecedence ==
    /\ [](ManualItems = {} \/ ProformaItems = {})
    /\ [][\A c \in Calls :
            (tasks[c].pc = "items" /\ tasks'[c].pc = "done") => items = <<>>]_vars

\* C18: full replace on update. When an update whose body held an items list
\* answers 200, the request's items are exactly those built from that list
\* and no earlier item remains; when an update whose body held no items key
\* answers 200, it has left the items as they were.
C18_FullReplace ==
    [][\A c \in Calls :
         ( /\ calls[c].op = "update"
           /\ calls[c].pc # "done"
           /\ calls'[c].pc = "done"
           /\ calls'[c].resp = 200 )
         => IF calls[c].items.given
            THEN items' = create_items(calls[c].items.list, FALSE)
            ELSE items' = items]_vars

\* the files of a set that no PurchaseRequest references
Unreferenced(files) ==
    {f \in files : FileName(f.subdir, f.n) \notin referenced_files(pr)}

\* the files the last run removed, and the files its lines of a kind name
Unlinked == cleanup.before \ media.files

Named(kind) ==
    {f \in cleanup.before :
        \E l \in cleanup.stdout.lines :
            l.kind = kind /\ l.name = FileName(f.subdir, f.n)}

C20_SummaryCounts ==
    (cleanup.ran /\ ~cleanup.stdout.warning) =>
        LET counted == IF cleanup.dry_run THEN Named("Would delete")
                       ELSE Unlinked
        IN  /\ cleanup.stdout.summary.count = Cardinality(counted)
            /\ cleanup.stdout.summary.size = format_size(TotalSize(counted))

\* the extension of a name: what follows its last dot, none without a dot
AllowedExtension(name) ==
    \E i \in DOMAIN name :
        /\ name[i] = "."
        /\ \A j \in DOMAIN name : j > i => name[j] # "."
        /\ lower(SubSeq(name, i + 1, Len(name))) \in ALLOWED_FILE_TYPES

\* C21: a proforma given to create, or a receipt, of at most MAX_UPLOAD_SIZE
\* bytes is accepted exactly when its name has an extension that is, case
\* folded, in ALLOWED_FILE_TYPES, and is otherwise refused as a type not
\* allowed; a file one byte larger is refused for its size.
C21_UploadBoundary ==
    (upload.field \in {"create.proforma", "receipt"} /\ upload.answer # "none")
    => upload.answer =
         IF upload.file.size > MAX_UPLOAD_SIZE
         THEN "File size exceeds maximum allowed size"
         ELSE IF AllowedExtension(upload.file.name) THEN "valid"
         ELSE "File type not allowed"

\* the columns of the row a task is there to write
TaskTargets(kind) ==
    CASE kind = "proforma" -> {"proforma_extracted_data"}
      [] kind = "po" -> {"purchase_order"}
      [] kind = "receipt" -> {"receipt_validated"}
      [] OTHER -> {}

\* C22: a task writes only its own target on the row: whatever an API call
\* committed to another column between the task's read and the task's write
\* is still stored after the write.
C22_TaskFrame ==
    [][\A c \in Calls :
         (tasks[c].pc = "work" /\ tasks'[c].pc # "work")
         => \A f \in (DOMAIN pr) \ TaskTargets(tasks[c].kind) :
               pr'[f] = pr[f]]_vars

\* the run of slot c reads the row and ends or goes on, without an exception
Reads(c, kind) ==
    /\ tasks[c].kind = kind
    /\ tasks[c].pc = "queued"
    /\ tasks'[c].pc \in {"work", "done"}

ReturnsAtOnce(c, res) ==
    /\ tasks'[c].pc = "done"
    /\ tasks'[c].result = res
    /\ tasks'[c].retries = tasks[c].retries
    /\ pr' = pr

\* C23: generate_purchase_order_task attaches a purchase order only to an
\* approved request that has none; on a request that is not approved it
\* returns an error, is not retried and changes nothing; on a request that
\* has a purchase order it returns success and leaves the file, so that runs
\* of the task one after another store the purchase order of the first.
C23_PurchaseOrderOnce ==
    [][ /\ \A c \in Calls :
             Reads(c, "po") =>
                /\ pr.status # "approved" => ReturnsAtOnce(c, "error")
                /\ (pr.status = "approved" /\ pr.purchase_order # 0)
                      => ReturnsAtOnce(c, "success")
        /\ pr'.purchase_order # pr.purchase_order
              => pr.status = "approved" /\ pr.purchase_order = 0 ]_vars

\* two runs have ended in success and the stored file is that of the first
C23_Witness ==
    /\ tasks[1].kind = "po" /\ tasks[1].result = "success"
    /\ tasks[2].kind = "po" /\ tasks[2].result = "success"
    /\ pr.purchase_order = 1

\* C24: validate_receipt_task writes its verdict only when the row it read
\* has a receipt and a purchase order; when either is missing it returns an
\* error, is not retried and changes nothing, so that a receipt submitted
\* before the purchase order exists is not validated by that run.
C24_ReceiptNeedsOrder ==
    [][\A c \in Calls :
         /\ Reads(c, "receipt") =>
               ((pr.receipt = 0 \/ pr.purchase_order = 0)
                   => ReturnsAtOnce(c, "error"))
         /\ ( /\ tasks[c].kind = "receipt"
              /\ tasks[c].pc = "work"
              /\ tasks'[c].pc = "done" )
            => /\ tasks[c].snap.receipt # 0
               /\ tasks[c].snap.purchase_order # 0 ]_vars

\* a receipt was submitted for a request without a purchase order: the run
\* has ended in an error and the receipt is not validated
C24_Witness ==
    \E c \in Calls :
        /\ calls[c].op = "submit"
        /\ calls[c].resp = 200
        /\ tasks[c].kind = "receipt"
        /\ tasks[c].pc = "done"
        /\ tasks[c].result = "error"
        /\ pr.receipt # 0
        /\ pr.purchase_order = 0
        /\ ~pr.receipt_validated

\* the test a task makes on the row it reads fails
GuardFails(kind) ==
    \/ ~pr.exists
    \/ kind = "proforma" /\ pr.proforma = 0
    \/ kind = "po" /\ pr.status # "approved"
    \/ kind = "receipt" /\ (pr.receipt = 0 \/ pr.purchase_order = 0)

\* C25: each of the three tasks terminates. An unexpected exception puts the
\* task back on the queue, at most max_retries times; after that the task
\* has failed and is never run again. A missing request or a failed guard
\* (no proforma, not approved, no receipt, no purchase order, directory not
\* writable) gives an error result and no retry.
C25_TasksTerminate ==
    /\ \A c \in Calls :
          (tasks[c].pc = "queued") ~> (tasks[c].pc \in {"done", "failed"})
    /\ [][\A c \in Calls :
            /\ tasks[c].pc \in {"done", "failed"} => tasks'[c] = tasks[c]
            /\ (tasks[c].pc \in {"queued", "work"} /\ tasks'[c].pc = "failed")
                  => tasks[c].retries = max_retries
            /\ (tasks[c].pc = "work" /\ tasks'[c].pc = "queued")
                  => /\ tasks[c].retries < max_retries
                     /\ tasks'[c].retries = tasks[c].retries + 1
            /\ (tasks[c].pc = "queued" /\ tasks'[c] # tasks[c]
                               /\ tasks'[c].pc = "queued")
                  => /\ tasks[c].retries < max_retries
                     /\ tasks'[c].retries = tasks[c].retries + 1
            /\ \A kind \in {"proforma", "po", "receipt"} :
                  (Reads(c, kind) /\ GuardFails(kind))
                     => ReturnsAtOnce(c, "error")
            /\ (tasks'[c].result = "error" /\ tasks[c].result # "error")
                  => /\ tasks'[c].pc = "done"
                     /\ tasks'[c].retries = tasks[c].retries ]_vars

\* one task has used up its retries and failed; another has met a failed
\* guard and returned an error without a retry
C25_Witness ==
    \E c, d \in Calls :
        /\ tasks[c].pc = "failed"
        /\ tasks[c].retries = max_retries
        /\ tasks[d].pc = "done"
        /\ tasks[d].result = "error"
        /\ tasks[d].retries = 0

\* C26: an approve or reject call that passed the permission class and found
\* the request answers with the first failing precondition, in this order:
\* not pending 400, no required level for the type 400, no required level
\* with the caller's role 403, an Approval of the caller at the matched level
\* 400. A failing call creates no Approval, leaves the row alone and enqueues
\* nothing. A call that passes goes on with the matched level, which for a
\* superuser is the required level with the highest level_number.
C26_PreconditionOrder ==
    [][\A c \in Calls :
        (calls[c].op = "idle" /\ calls'[c].op \in ApprovalOps)
        => LET u == calls'[c].user
               required == {l \in ApprovalLevels :
                               l.request_type = pr.request_type /\ l.is_required}
               mine == IF is_superuser(u)
                       THEN {l \in required :
                               \A m \in required : m.level_number <= l.level_number}
                       ELSE {l \in required : l.approver_role = role(u)}
               first == {l \in mine :
                           \A m \in mine : l.level_number <= m.level_number}
               held == \E i \in 1..Len(approvals), l \in first :
                          /\ approvals[i].approver = u
                          /\ approvals[i].approval_level = l.id
               failed(code) == calls'[c].pc = "done" /\ calls'[c].resp = code
           IN  (IsApprover(u) /\ InQueryset(u, pr))
               => /\ IF pr.status # "pending" THEN failed(400)
                     ELSE IF required = {} THEN failed(400)
                     ELSE IF first = {} THEN failed(403)
                     ELSE IF held THEN failed(400)
                     ELSE /\ calls'[c].pc = "lock"
                          /\ \E l \in first : calls'[c].level = l.id
                  /\ calls'[c].pc = "done"
                     => /\ approvals' = approvals
                        /\ pr' = pr
                        /\ tasks' = tasks
                        /\ ~calls'[c].created ]_vars

\* appr2 asked for a one-level request while it was pending (403) and again
\* after appr1 had approved it (400); the superuser's call went on at t1a.
C26_Witness ==
    /\ pr.request_type = "t1"
    /\ pr.status = "approved"
    /\ \E c, d \in Calls :
          /\ c < d
          /\ calls[c].user = "appr2" /\ calls[c].op = "approve"
          /\ calls[c].seen = "pending" /\ calls[c].resp = 403
          /\ calls[d].user = "appr2" /\ calls[d].op = "approve"
          /\ calls[d].seen = "approved" /\ calls[d].resp = 400

\* C27 (as claimed): when an approve call sets status 'approved', every
\* required level of the type the request then has holds an approved Approval
\* of the request, also when the owner changed the type between two approvals.
C27_ApprovedAtEveryLevel ==
    [][(pr.status # "approved" /\ pr'.status = "approved")
        => \A l \in ApprovalLevels :
              (l.request_type = pr'.request_type /\ l.is_required)
              => \E i \in 1..Len(approvals') :
                    /\ approvals'[i].approval_level = l.id
                    /\ approvals'[i].action = "approved" ]_vars

\* appr1 approved at t2a, the owner moved the request to t3, appr2's approval
\* at t3b made it 'approved': no call overlapped another.
C27_Retyped ==
    /\ pr.request_type = "t3"
    /\ pr.status = "approved"
    /\ approvals = << Approval("appr1", "t2a", "approved"),
                      Approval("appr2", "t3b", "approved") >>
    /\ \A c \in Calls : calls[c].pc = "done" /\ calls[c].resp = 200
    /\ calls[1].op = "approve" /\ calls[2].op = "update"
    /\ calls[3].op = "approve" /\ calls[3].seen = "pending"

\* C28 (as claimed): a pending request of a type with a required level gets
\* 'approved' by the approve calls of the users, none a superuser, who hold
\* the approver_role of a required level: whatever role the levels carry, and
\* when two required levels carry one role.
C28_WorkflowCompletes ==
    (pr.status = "pending") ~> (pr.status = "approved")

\* The types whose levels carry staff, finance, or one role twice are never
\* approved by these calls.
C28_Stuck ==
    pr.request_type \in {"t4", "t5", "t6"} => pr.status = "pending"

\* every holder of a role of a t6 level has approved, both at the first level
C28_StuckForGood ==
    /\ pr.request_type = "t6"
    /\ pr.status = "pending"
    /\ approvals = << Approval("appr1", "t6a", "approved"),
                      Approval("appr1b", "t6a", "approved") >>
    /\ \A c \in 1..2 : calls[c].pc = "done" /\ calls[c].resp = 200

\* C29 (as claimed): no stored RequestItem has an empty description, whether
\* the create endpoint, the update endpoint or process_proforma made it.
C29_NoEmptyDescription ==
    \A i \in 1..Len(items) : items[i].description # ""

\* the owner's update with the blank element answered 200 and the request
\* holds an item without a description
C29_BlankStored ==
    /\ items = << RequestItem("", 1, 1000) >>
    /\ \A c \in Calls : calls[c].pc \in {"idle", "done"}
    /\ \E c \in Calls : calls[c].op = "update" /\ calls[c].resp = 200

\* C30: approved_by is set exactly when the status is 'approved', and the
\* user it names has an approved Approval of the request; a pending or a
\* rejected request has no approved_by.
C30_ApprovedBy ==
    pr.exists
    => /\ (pr.approved_by # NoUser) <=> (pr.status = "approved")
       /\ pr.status \in {"pending", "rejected"} => pr.approved_by = NoUser
       /\ pr.approved_by # NoUser
          => \E i \in 1..Len(approvals) :
                /\ approvals[i].approver = pr.approved_by
                /\ approvals[i].action = "approved"

\* the superuser's approval made a one-level request 'approved', an update
\* that had read it before wrote it back as pending with no approved_by, and
\* appr1's approval made it 'approved' again, with appr1 as approved_by
C30_Witness ==
    /\ pr.status = "approved"
    /\ pr.approved_by = "appr1"
    /\ approvals = << Approval("su", "t1a", "approved"),
                      Approval("appr1", "t1a", "approved") >>
    /\ \E c \in Calls :
          /\ calls[c].op = "approve" /\ calls[c].user = "su"
          /\ calls[c].resp = 200 /\ calls[c].moved

====
